---- MODULE Spec2Model ----
(***************************************************************************)
(* The consensus engine of the quanta node: src/src/consensus/blockchain.rs *)
(* with the block, transaction, account and merkle code of src/src/core and *)
(* the sled-backed storage of src/src/storage/db.rs.                        *)
(*                                                                         *)
(* A node is one Blockchain value shared by threads (all methods take      *)
(* &self): two submitting clients (add_transaction), one miner             *)
(* (mine_pending_transactions) and the peer side (add_network_block).      *)
(* add_transaction and mine_pending_transactions take one step per lock or *)
(* DashMap access that another thread can observe; add_network_block is    *)
(* one step.                                                               *)
(***************************************************************************)
EXTENDS Integers, Sequences, FiniteSets, TLC

(***************************************************************************)
(* Bounds of the model.                                                    *)
(***************************************************************************)
MaxPending == 2        \* submissions are taken while the pool is shorter
MaxOrphans == 3        \* delivered blocks are taken while the orphan pool is shorter
MaxClock == 1          \* seconds the wall clock may advance
MaxPool == 3          \* max_size of the fee-indexed pool
PowPeriod == 3         \* the digest model repeats with this period in the block nonce
U64Max == 1073741823   \* the largest u64 of the model (2^30 - 1 stands for 2^64 - 1)
NowBase == 1767225600  \* wall clock when the node starts (2026-01-01 00:00:00 UTC)

(***************************************************************************)
(* Program constants, src/src/consensus/blockchain.rs lines 38-81.         *)
(***************************************************************************)
TARGET_BLOCK_TIME == 10
DIFFICULTY_ADJUSTMENT_INTERVAL == 10
YEAR_1_REWARD == 100000000
ANNUAL_REDUCTION_PERCENT == 15
MIN_REWARD == 5000000
BLOCKS_PER_YEAR == 3153600
EARLY_ADOPTER_BONUS_BLOCKS == 100000
BOOTSTRAP_PHASE_BLOCKS == 315360
FEE_BURN_PERCENT == 70
FEE_TREASURY_PERCENT == 20
FEE_VALIDATOR_PERCENT == 10
TREASURY_ALLOCATION_PERCENT == 5
TREASURY_ADDRESS == "0x01"
MINING_REWARD_LOCK_PERCENT == 50
MINING_REWARD_LOCK_BLOCKS == 157680
MAX_MEMPOOL_SIZE == 5000
MAX_BLOCK_TRANSACTIONS == 2000
MAX_BLOCK_SIZE_BYTES == 1048576
MAX_ORPHAN_BLOCKS == 100
MAX_TRANSACTION_SIZE_BYTES == 102400
MIN_TRANSACTION_FEE == 100
TRANSACTION_EXPIRY_SECONDS == 86400
COINBASE_MATURITY == 100
MAX_FUTURE_BLOCK_TIME == 7200
MAX_TIME_DELTA == 7200
GENESIS_GRANT == 1000000000
GENESIS_ADDRESS == "0x00"
MIN_DIFFICULTY == 4
MAX_DIFFICULTY == 32

(***************************************************************************)
(* Small helpers.                                                          *)
(***************************************************************************)
Min(a, b) == IF a < b THEN a ELSE b
Max(a, b) == IF a > b THEN a ELSE b

\* (x * p) / 100 in integer arithmetic, split so that no intermediate value
\* overflows.
PctOf(x, p) == (x \div 100) * p + ((x % 100) * p) \div 100

\* u64::saturating_add
SatAdd(a, b) == IF a + b > U64Max THEN U64Max ELSE a + b

RECURSIVE SumSeq(_)
SumSeq(s) == IF s = <<>> THEN 0 ELSE Head(s) + SumSeq(Tail(s))

(***************************************************************************)
(* Digests.  SHA3-256 is taken as collision free: a digest is the tagged   *)
(* tuple of what was hashed.  Every kind of digest has its own length, so  *)
(* digests of different kinds are unequal.                                 *)
(***************************************************************************)
ZeroHash == <<"Z">>     \* "0".repeat(64)

\* Transaction::hash and get_signing_data: every field but the signature
TxHash(tx) ==
    <<"T", tx.sender, tx.recipient, tx.amount, tx.timestamp, tx.fee, tx.nonce,
      tx.public_key, tx.tx_type>>

get_signing_data(tx) == TxHash(tx)

\* FalconKeypair::sign: a signed message that opens under the signer's key
Sign(pk, data) == <<"S", pk, data>>

\* verify_signature: the signature opens under public_key to the message
verify_signature(data, signature, public_key) ==
    /\ Len(signature) = 3
    /\ signature[2] = public_key
    /\ signature[3] = data

\* derive_address_from_pubkey: "0x" and 40 hex digits of the key's digest
derive_address_from_pubkey(pk) ==
    CASE pk = "pkA" -> "0xA"
      [] pk = "pkB" -> "0xB"
      [] OTHER -> "0x??"

is_coinbase(tx) == tx.sender = "COINBASE"

\* Transaction::verify
verify(tx) ==
    IF is_coinbase(tx) THEN TRUE
    ELSE IF tx.signature = <<>> \/ tx.public_key = "" THEN FALSE
    ELSE IF tx.sender # derive_address_from_pubkey(tx.public_key) THEN FALSE
    ELSE verify_signature(get_signing_data(tx), tx.signature, tx.public_key)

\* bincode length of a transaction: 8-byte length prefixes and integers, a
\* 4-byte variant tag; Falcon-512 keys are 897 bytes, signatures 666, an
\* address 42 characters
\* the byte length of a sender or recipient string: the two system names,
\* two recipient strings of no address format (one as long as a block may
\* be, one 200 bytes shorter), and the 42 characters of an address
StrLen(a) ==
    CASE a = "COINBASE" -> 8
      [] a = "TREASURY" -> 8
      [] a = "0xBlockLong" -> MAX_BLOCK_SIZE_BYTES
      [] a = "0xNearlyBlockLong" -> MAX_BLOCK_SIZE_BYTES - 200
      [] OTHER -> 42

TxSize(tx) ==
    (8 + StrLen(tx.sender)) + (8 + StrLen(tx.recipient)) + 8 + 8
    + (8 + (IF tx.signature = <<>> THEN 0 ELSE 666))
    + (8 + (IF tx.public_key = "" THEN 0 ELSE 897)) + 8 + 8 + 4

(***************************************************************************)
(* AccountState, src/src/core/transaction.rs.  A state is a function from  *)
(* the addresses that have an entry to their AccountBalance.               *)
(***************************************************************************)
NewAccount == [balance |-> 0, nonce |-> 0, locked_balance |-> 0, unlock_height |-> 0]

AccountState_new == [a \in {} |-> NewAccount]

Entry(st, a) == IF a \in DOMAIN st THEN st[a] ELSE NewAccount

Put(st, a, acc) == [x \in (DOMAIN st) \cup {a} |-> IF x = a THEN acc ELSE st[x]]

get_balance(st, a) == IF a \in DOMAIN st THEN st[a].balance ELSE 0

get_nonce(st, a) == IF a \in DOMAIN st THEN st[a].nonce ELSE 0

credit_account(st, tx, current_height, coinbase_maturity) ==
    IF tx.amount = 0 THEN st
    ELSE LET account == Entry(st, tx.recipient)
         IN  IF is_coinbase(tx)
             THEN Put(st, tx.recipient,
                      [account EXCEPT
                          !.locked_balance = SatAdd(@, tx.amount),
                          !.unlock_height = current_height + coinbase_maturity])
             ELSE Put(st, tx.recipient,
                      [account EXCEPT !.balance = SatAdd(@, tx.amount)])

\* debit without the balance test: what a missing check would do
debit_account_unchecked(st, address, total_amount) ==
    IF address \in DOMAIN st
    THEN [ok |-> TRUE,
          st |-> [st EXCEPT ![address].balance = (@ - total_amount) % (U64Max + 1),
                            ![address].nonce = @ + 1]]
    ELSE [ok |-> FALSE, st |-> st]

\* debit_account: the bool it returns and the state it leaves
debit_account(st, address, total_amount) ==
    IF address \in DOMAIN st /\ st[address].balance >= total_amount
    THEN [ok |-> TRUE,
          st |-> [st EXCEPT ![address].balance = @ - total_amount,
                            ![address].nonce = @ + 1]]
    ELSE [ok |-> FALSE, st |-> st]

unlock_mature_coinbase(st, current_height) ==
    [a \in DOMAIN st |->
        IF st[a].locked_balance > 0 /\ current_height >= st[a].unlock_height
        THEN [st[a] EXCEPT !.balance = SatAdd(@, st[a].locked_balance),
                           !.locked_balance = 0,
                           !.unlock_height = 0]
        ELSE st[a]]

add_locked_balance(st, address, amount, unlock_height) ==
    LET account == Entry(st, address)
    IN  Put(st, address,
            [account EXCEPT !.locked_balance = SatAdd(@, amount),
                            !.unlock_height = Max(@, unlock_height)])

increment_nonce(st, address) ==
    IF address \in DOMAIN st
    THEN [st EXCEPT ![address].nonce = @ + 1]
    ELSE Put(st, address, [NewAccount EXCEPT !.nonce = 1])

(***************************************************************************)
(* Merkle tree, src/src/core/merkle.rs.                                    *)
(***************************************************************************)
\* sha3_hash(left || right) over the raw digests
NodeHash(l, r) == <<"M", l, r>>

RECURSIVE build_tree(_)
\* build_tree: the digest of the node built over a non-empty slice
build_tree(hashes) ==
    IF Len(hashes) = 1 THEN hashes[1]
    ELSE LET mid == (Len(hashes) + 1) \div 2
             left_hashes == SubSeq(hashes, 1, mid)
             right_hashes == IF mid < Len(hashes)
                             THEN SubSeq(hashes, mid + 1, Len(hashes))
                             ELSE SubSeq(hashes, mid, mid)
         IN  NodeHash(build_tree(left_hashes), build_tree(right_hashes))

TxHashes(transactions) == [i \in 1..Len(transactions) |-> TxHash(transactions[i])]

\* MerkleTree::from_transactions(..).root_hash().unwrap_or("0".repeat(64))
MerkleRootOf(transactions) ==
    IF transactions = <<>> THEN ZeroHash ELSE build_tree(TxHashes(transactions))

(***************************************************************************)
(* Block, src/src/core/block.rs.                                           *)
(***************************************************************************)
\* calculate_hash: double_sha3 of index:timestamp:tx hashes:previous_hash:
\* nonce:difficulty:merkle_root
calculate_hash(b) ==
    <<"B", b.index, b.timestamp, TxHashes(b.transactions), b.previous_hash,
      b.nonce, b.difficulty, b.merkle_root>>

\* The number of leading zero nibbles of a block digest: a fixed function
\* of the hashed header that passes through 0, 4, 8, ... as the nonce
\* grows.  It gives 0 for both genesis headers, whose SHA3 digests
\* (527a8a6a..., 3680dc35...) begin with no zero nibble.
LeadingZeros(h) ==
    IF h[1] # "B" THEN 0
    ELSE ((h[6] + h[2] + Len(h[4])) % PowPeriod) * 4

\* a proof-of-work test that accepts every digest
has_valid_hash_any(b) == TRUE

has_valid_hash(b) == LeadingZeros(b.hash) >= b.difficulty

\* a block that does not name its predecessor
Block_new_unlinked(index, transactions, previous_hash, difficulty, now_ts) ==
    LET blk == [index |-> index, timestamp |-> now_ts, transactions |-> transactions,
                previous_hash |-> ZeroHash, nonce |-> 0, hash |-> ZeroHash,
                difficulty |-> difficulty,
                merkle_root |-> MerkleRootOf(transactions)]
    IN  [blk EXCEPT !.hash = calculate_hash(blk)]

\* Block::new with the wall clock read at `now`
Block_new(index, transactions, previous_hash, difficulty, now_ts) ==
    LET blk == [index |-> index, timestamp |-> now_ts, transactions |-> transactions,
                previous_hash |-> previous_hash, nonce |-> 0, hash |-> ZeroHash,
                difficulty |-> difficulty,
                merkle_root |-> MerkleRootOf(transactions)]
    IN  [blk EXCEPT !.hash = calculate_hash(blk)]

\* Block::genesis
Block_genesis ==
    LET g == [index |-> 0, timestamp |-> 1640000000, transactions |-> <<>>,
              previous_hash |-> ZeroHash, nonce |-> 0, hash |-> ZeroHash,
              difficulty |-> 4, merkle_root |-> ZeroHash]
    IN  [g EXCEPT !.hash = calculate_hash(g)]

\* GENESIS_HASH: the constant 527a8a6a...433d is the double SHA3-256 of
\* "0:1735689600::<64 zeros>:0:6:<64 zeros>", the header below
GenesisOfConstant ==
    [index |-> 0, timestamp |-> 1735689600, transactions |-> <<>>,
     previous_hash |-> ZeroHash, nonce |-> 0, hash |-> ZeroHash,
     difficulty |-> 6, merkle_root |-> ZeroHash]

GENESIS_HASH == calculate_hash(GenesisOfConstant)

\* Block::is_valid(Some(prev))
is_valid(b, prev) ==
    /\ b.hash = calculate_hash(b)
    /\ has_valid_hash(b)
    /\ b.merkle_root = MerkleRootOf(b.transactions)
    /\ b.previous_hash = prev.hash
    /\ b.index = prev.index + 1
    /\ \A i \in 1..Len(b.transactions) :
          is_coinbase(b.transactions[i]) \/ verify(b.transactions[i])

\* one turn of the loop of Block::mine: hash, test, else the next nonce
MineAttempt(b) ==
    LET h == [b EXCEPT !.hash = calculate_hash(b)]
    IN  IF has_valid_hash(h) THEN [found |-> TRUE, block |-> h]
        ELSE [found |-> FALSE, block |-> [h EXCEPT !.nonce = @ + 1]]

\* bincode length of a block
BlockSize(b) ==
    8 + 8 + 8 + SumSeq([i \in 1..Len(b.transactions) |-> TxSize(b.transactions[i])])
    + (8 + 64) + 8 + (8 + 64) + 4 + (8 + 64)

(***************************************************************************)
(* Storage, src/src/storage/db.rs: the keys block:<i>, chain_height and    *)
(* account_state of one sled database.                                     *)
(***************************************************************************)
EmptyStorage == [blocks |-> [i \in {} |-> 0], height |-> 0, account_state |-> <<>>]

\* serde_json::to_vec and from_slice of a Transaction, a Block and an
\* AccountState: the fields in the order of the struct; the integers are
\* u64, i64 and u32, which JSON numbers carry exactly
tx_to_json(tx) ==
    <<tx.sender, tx.recipient, tx.amount, tx.timestamp, tx.signature, tx.public_key,
      tx.fee, tx.nonce, tx.tx_type>>

tx_from_json(j) ==
    [sender |-> j[1], recipient |-> j[2], amount |-> j[3], timestamp |-> j[4],
     signature |-> j[5], public_key |-> j[6], fee |-> j[7], nonce |-> j[8],
     tx_type |-> j[9]]

block_to_json(b) ==
    <<b.index, b.timestamp, [i \in 1..Len(b.transactions) |-> tx_to_json(b.transactions[i])],
      b.previous_hash, b.nonce, b.hash, b.difficulty, b.merkle_root>>

block_from_json(j) ==
    [index |-> j[1], timestamp |-> j[2],
     transactions |-> [i \in 1..Len(j[3]) |-> tx_from_json(j[3][i])],
     previous_hash |-> j[4], nonce |-> j[5], hash |-> j[6], difficulty |-> j[7],
     merkle_root |-> j[8]]

state_to_json(st) ==
    [a \in DOMAIN st |->
        <<a, st[a].balance, st[a].nonce, st[a].locked_balance, st[a].unlock_height>>]

state_from_json(j) ==
    [a \in DOMAIN j |->
        [balance |-> j[a][2], nonce |-> j[a][3], locked_balance |-> j[a][4],
         unlock_height |-> j[a][5]]]

\* a save_account_state that writes nothing
save_account_state_dropped(sto, st) == sto

save_block(sto, b) ==
    [sto EXCEPT !.blocks = [i \in (DOMAIN sto.blocks) \cup {b.index} |->
                               IF i = b.index THEN block_to_json(b) ELSE sto.blocks[i]]]

set_chain_height(sto, height) == [sto EXCEPT !.height = height]

save_account_state(sto, st) == [sto EXCEPT !.account_state = <<state_to_json(st)>>]

\* load_account_state()?.unwrap_or_else(AccountState::new)
load_account_state(sto) ==
    IF sto.account_state = <<>> THEN AccountState_new
    ELSE state_from_json(sto.account_state[1])

RECURSIVE LoadFrom(_, _)
LoadFrom(sto, i) ==
    IF i >= sto.height \/ i \notin DOMAIN sto.blocks THEN <<>>
    ELSE <<block_from_json(sto.blocks[i])>> \o LoadFrom(sto, i + 1)

\* load_chain: blocks 0 .. height - 1, up to the first one that is missing
load_chain(sto) == LoadFrom(sto, 0)

\* The three writes of a commit (save_block, set_chain_height,
\* save_account_state), of which the first n have been done.
StorageAfterWrites(sto, b, height, st, n) ==
    LET s1 == IF n >= 1 THEN save_block(sto, b) ELSE sto
        s2 == IF n >= 2 THEN set_chain_height(s1, height) ELSE s1
    IN  IF n >= 3 THEN save_account_state(s2, st) ELSE s2

(***************************************************************************)
(* Rewards and difficulty, src/src/consensus/blockchain.rs.                *)
(***************************************************************************)
RECURSIVE ReducedReward(_)
\* YEAR_1_REWARD * 0.85^years, rounded; a chain shorter than BLOCKS_PER_YEAR
\* has years = 0, where it is YEAR_1_REWARD exactly
ReducedReward(years) ==
    IF years = 0 THEN YEAR_1_REWARD
    ELSE PctOf(ReducedReward(years - 1), 100 - ANNUAL_REDUCTION_PERCENT)

\* x * 1.5 rounded (EARLY_ADOPTER_MULTIPLIER)
TimesEarlyAdopter(x) == x + (x + 1) \div 2

calculate_reward_at_height(height) ==
    LET base_reward == Max(ReducedReward(height \div BLOCKS_PER_YEAR), MIN_REWARD)
    IN  IF height < EARLY_ADOPTER_BONUS_BLOCKS THEN TimesEarlyAdopter(base_reward)
        ELSE base_reward

\* get_usage_factor is 1.0 while the chain has fewer than 10 blocks; beyond
\* that it is 1 + min(average fee per block / 50 QUA, 1)
UsageAdjusted(ch, reward_with_bonus) ==
    LET recent_blocks == Min(100, Len(ch))
        recent == SubSeq(ch, Len(ch) - recent_blocks + 1, Len(ch))
        total_fees == SumSeq([k \in 1..Len(recent) |->
                         SumSeq([j \in 1..Len(recent[k].transactions) |->
                            IF is_coinbase(recent[k].transactions[j]) THEN 0
                            ELSE recent[k].transactions[j].fee])])
    IN  IF recent_blocks < 10 THEN reward_with_bonus
        ELSE reward_with_bonus
             + Min(reward_with_bonus,
                   ((reward_with_bonus \div 1000000) * total_fees) \div (recent_blocks * 50))

get_mining_reward(ch) ==
    LET chain_len == Len(ch)
        reward_with_bonus == calculate_reward_at_height(chain_len)
    IN  IF chain_len < BOOTSTRAP_PHASE_BLOCKS
        THEN Min(Max(UsageAdjusted(ch, reward_with_bonus), reward_with_bonus),
                 reward_with_bonus * 2)
        ELSE reward_with_bonus

calculate_next_difficulty(ch) ==
    LET chain_len == Len(ch)
        latest_block == ch[chain_len]
        start_block == ch[chain_len - DIFFICULTY_ADJUSTMENT_INTERVAL + 1]
        actual_time == latest_block.timestamp - start_block.timestamp
        expected_time == TARGET_BLOCK_TIME * DIFFICULTY_ADJUSTMENT_INTERVAL
        actual_time_clamped == Min(Max(actual_time, expected_time \div 4), expected_time * 4)
        current_difficulty == latest_block.difficulty
        new_difficulty_raw == (current_difficulty * expected_time) \div actual_time_clamped
    IN  IF chain_len < DIFFICULTY_ADJUSTMENT_INTERVAL THEN latest_block.difficulty
        ELSE IF chain_len % DIFFICULTY_ADJUSTMENT_INTERVAL # 0 THEN latest_block.difficulty
        ELSE Min(Max(Min(Max(new_difficulty_raw, (current_difficulty * 3) \div 4),
                         (current_difficulty * 5) \div 4),
                     MIN_DIFFICULTY),
                 MAX_DIFFICULTY)

\* the split of a reward and of the fees (lines 308-321 and 551-557)
TreasuryAllocation(reward) == PctOf(reward, TREASURY_ALLOCATION_PERCENT)
MinerReward(reward) == reward - TreasuryAllocation(reward)
ImmediateReward(reward) == PctOf(MinerReward(reward), 100 - MINING_REWARD_LOCK_PERCENT)
LockedReward(reward) == MinerReward(reward) - ImmediateReward(reward)
FeeToMiner(total_fees) == PctOf(total_fees, FEE_VALIDATOR_PERCENT)
FeeToTreasury(total_fees) == PctOf(total_fees, FEE_TREASURY_PERCENT)

CHECKPOINTS == {<<0, GENESIS_HASH>>}

validate_checkpoint(height, hash) ==
    \A c \in CHECKPOINTS : c[1] = height => hash = c[2]

(***************************************************************************)
(* Block validation and application, src/src/consensus/blockchain.rs.      *)
(***************************************************************************)
IsUserTx(tx) == ~is_coinbase(tx) /\ tx.sender # "TREASURY"

UserFees(transactions) ==
    SumSeq([i \in 1..Len(transactions) |->
               IF IsUserTx(transactions[i]) THEN transactions[i].fee ELSE 0])

RECURSIVE ValidateTxs(_, _, _, _)
\* the loop of lines 602-646 from transaction i on, over the scratch state
ValidateTxs(transactions, i, temp_state, block_index) ==
    IF i > Len(transactions) THEN "Ok"
    ELSE LET tx == transactions[i]
             total_required == SatAdd(tx.amount, tx.fee)
             debited == debit_account(temp_state, tx.sender, total_required)
         IN  IF is_coinbase(tx)
             THEN ValidateTxs(transactions, i + 1, temp_state, block_index)
             ELSE IF ~verify(tx) THEN "InvalidSignature"
             ELSE IF tx.fee < MIN_TRANSACTION_FEE THEN "FeeTooLow"
             ELSE IF tx.nonce # get_nonce(temp_state, tx.sender) + 1 THEN "InvalidNonce"
             ELSE IF get_balance(temp_state, tx.sender) < total_required
                  THEN "InsufficientBalance"
             ELSE IF ~debited.ok THEN "InvalidBlock"
             ELSE ValidateTxs(transactions, i + 1,
                              increment_nonce(
                                  credit_account(debited.st, tx, block_index,
                                                 COINBASE_MATURITY),
                                  tx.sender),
                              block_index)

\* validate_block_consensus: "Ok" or the error it returns
validate_block_consensus(block, previous, st, now_ts) ==
    LET txs == block.transactions
        coinbase_txs == SelectSeq(txs, is_coinbase)
        treasury_txs == SelectSeq(txs, LAMBDA t : t.sender = "TREASURY")
        expected_reward == calculate_reward_at_height(block.index)
        total_fees == UserFees(txs)
        expected_coinbase == SatAdd(ImmediateReward(expected_reward), FeeToMiner(total_fees))
        expected_treasury == SatAdd(TreasuryAllocation(expected_reward),
                                    FeeToTreasury(total_fees))
    IN  IF BlockSize(block) > MAX_BLOCK_SIZE_BYTES THEN "BlockTooLarge"
        ELSE IF block.timestamp <= previous.timestamp THEN "InvalidBlock"
        ELSE IF block.timestamp > now_ts + MAX_FUTURE_BLOCK_TIME THEN "InvalidBlock"
        ELSE IF \/ block.timestamp > previous.timestamp + MAX_TIME_DELTA
                \/ block.timestamp < previous.timestamp - MAX_TIME_DELTA
             THEN "InvalidBlock"
        ELSE IF block.difficulty # previous.difficulty THEN "InvalidDifficulty"
        ELSE IF Len(coinbase_txs) # 1 THEN "InvalidBlock"
        ELSE IF coinbase_txs[1].amount # expected_coinbase THEN "InvalidCoinbaseReward"
        ELSE IF expected_treasury > 0 /\ Len(treasury_txs) # 1 THEN "InvalidBlock"
        ELSE IF expected_treasury > 0 /\ treasury_txs[1].amount # expected_treasury
             THEN "InvalidBlock"
        ELSE IF expected_treasury > 0 /\ treasury_txs[1].recipient # TREASURY_ADDRESS
             THEN "InvalidBlock"
        ELSE IF expected_treasury = 0 /\ treasury_txs # <<>> THEN "InvalidBlock"
        ELSE ValidateTxs(txs, 1, st, block.index)

RECURSIVE ApplyNetworkTxs(_, _, _, _)
\* the loop of lines 870-879: every transaction that is not coinbase is
\* debited, every transaction is credited
ApplyNetworkTxs(transactions, i, new_state, block_index) ==
    IF i > Len(transactions) THEN [ok |-> TRUE, st |-> new_state]
    ELSE LET tx == transactions[i]
             debited == IF is_coinbase(tx) THEN [ok |-> TRUE, st |-> new_state]
                        ELSE debit_account(new_state, tx.sender,
                                           SatAdd(tx.amount, tx.fee))
         IN  IF ~debited.ok THEN [ok |-> FALSE, st |-> new_state]
             ELSE ApplyNetworkTxs(transactions, i + 1,
                                  credit_account(debited.st, tx, block_index,
                                                 COINBASE_MATURITY),
                                  block_index)

\* lines 864-879: the state a network block leaves, or failure
NetworkNewState(st, block) ==
    ApplyNetworkTxs(block.transactions, 1,
                    unlock_mature_coinbase(st, block.index), block.index)

\* a commit that leaves the pool as it was
RetainAll(pend, block) == pend

\* pending.retain(|tx| no transaction of the block has tx's hash)
RetainUnmined(pend, block) ==
    SelectSeq(pend, LAMBDA tx :
        \A j \in 1..Len(block.transactions) : TxHash(block.transactions[j]) # TxHash(tx))

\* pending_nonces.remove(sender) for every transaction that is not coinbase
ClearNonces(pn, block) ==
    LET gone == {block.transactions[j].sender : j \in
                    {k \in 1..Len(block.transactions) : ~is_coinbase(block.transactions[k])}}
    IN  [a \in (DOMAIN pn) \ gone |-> pn[a]]

\* A node's memory and storage as one record, for the commit sequences.
NodeState(ch, st, pend, pn, sto, result) ==
    [chain |-> ch, account_state |-> st, pending_transactions |-> pend,
     pending_nonces |-> pn, storage |-> sto, result |-> result]

\* lines 881-906 of add_block_to_main_chain: push, then the three writes,
\* of which write number fail_at returns an error (0: none does)
NetworkCommit(n, block, new_state, fail_at) ==
    LET pushed == Append(n.chain, block)
        height == block.index + 1
    IN  IF fail_at # 0
        THEN [n EXCEPT !.chain = pushed,
                       !.storage = StorageAfterWrites(@, block, height, new_state,
                                                      fail_at - 1),
                       !.result = "Storage"]
        ELSE [n EXCEPT !.chain = pushed,
                       !.storage = StorageAfterWrites(@, block, height, new_state, 3),
                       !.account_state = new_state,
                       !.pending_transactions = RetainUnmined(@, block),
                       !.pending_nonces = ClearNonces(@, block),
                       !.result = "Ok"]

\* add_block_to_main_chain
add_block_to_main_chain(n, block, now_ts, fail_at) ==
    LET latest == n.chain[Len(n.chain)]
        consensus == validate_block_consensus(block, latest, n.account_state, now_ts)
        applied == NetworkNewState(n.account_state, block)
    IN  IF ~validate_checkpoint(block.index, block.hash)
        THEN [n EXCEPT !.result = "InvalidBlock"]
        ELSE IF ~is_valid(block, latest) THEN [n EXCEPT !.result = "InvalidBlock"]
        ELSE IF consensus # "Ok" THEN [n EXCEPT !.result = consensus]
        ELSE IF ~applied.ok THEN [n EXCEPT !.result = "InvalidBlock"]
        ELSE NetworkCommit(n, block, applied.st, fail_at)

\* lines 405-423 of mine_pending_transactions: the three writes, then the
\* swap in memory
MinedCommit(n, block, new_state, fail_at) ==
    IF fail_at # 0
    THEN [n EXCEPT !.storage = StorageAfterWrites(@, block, block.index + 1, new_state,
                                                  fail_at - 1),
                   !.result = "Storage"]
    ELSE [n EXCEPT !.storage = StorageAfterWrites(@, block, block.index + 1, new_state, 3),
                   !.account_state = new_state,
                   !.chain = Append(@, block),
                   !.pending_transactions = RetainUnmined(@, block),
                   !.pending_nonces = ClearNonces(@, block),
                   !.result = "Ok"]

\* lines 399-426: the gate on the mined block, then the commit
MineGateAndCommit(n, block, new_state, fail_at) ==
    IF ~is_valid(block, n.chain[Len(n.chain)])
    THEN [n EXCEPT !.result = "InvalidBlock"]
    ELSE MinedCommit(n, block, new_state, fail_at)

(***************************************************************************)
(* Block assembly, lines 282-361.                                          *)
(***************************************************************************)
RECURSIVE SortByFeeDesc(_)
\* sort_by(|a, b| b.fee.cmp(&a.fee)): stable, highest fee first
SortByFeeDesc(s) ==
    IF s = <<>> THEN <<>>
    ELSE LET rest == SortByFeeDesc(SubSeq(s, 1, Len(s) - 1))
             tx == s[Len(s)]
             k == Cardinality({i \in 1..Len(rest) : rest[i].fee >= tx.fee})
         IN  SubSeq(rest, 1, k) \o <<tx>> \o SubSeq(rest, k + 1, Len(rest))

RECURSIVE SelectForBlock(_, _, _, _)
\* the loop of lines 293-305: it stops at the first transaction that does
\* not fit
SelectForBlock(sorted_txs, i, transactions, block_size) ==
    IF i > Len(sorted_txs) THEN transactions
    ELSE IF Len(transactions) >= MAX_BLOCK_TRANSACTIONS THEN transactions
    ELSE IF block_size + TxSize(sorted_txs[i]) > MAX_BLOCK_SIZE_BYTES THEN transactions
    ELSE SelectForBlock(sorted_txs, i + 1, Append(transactions, sorted_txs[i]),
                        block_size + TxSize(sorted_txs[i]))

SystemTx(sender, recipient, amount, now_ts) ==
    [sender |-> sender, recipient |-> recipient, amount |-> amount,
     timestamp |-> now_ts, signature |-> <<>>, public_key |-> "", fee |-> 0,
     nonce |-> 0, tx_type |-> "Transfer"]

\* lines 307-361: coinbase, treasury transaction if any, then the selection
AssembleTransactions(transactions, reward, miner_address, now_ts) ==
    LET total_fees == SumSeq([i \in 1..Len(transactions) |-> transactions[i].fee])
        coinbase_amount == SatAdd(ImmediateReward(reward), FeeToMiner(total_fees))
        coinbase_tx == SystemTx("COINBASE", miner_address, coinbase_amount, now_ts)
        treasury_amount == SatAdd(TreasuryAllocation(reward), FeeToTreasury(total_fees))
        treasury_tx == SystemTx("TREASURY", TREASURY_ADDRESS, treasury_amount, now_ts)
    IN  IF TreasuryAllocation(reward) + FeeToTreasury(total_fees) > 0
        THEN <<coinbase_tx, treasury_tx>> \o transactions
        ELSE <<coinbase_tx>> \o transactions

\* one turn of the loop of lines 371-380
MineApplyTx(new_state, tx, current_height) ==
    LET debited == IF IsUserTx(tx)
                   THEN debit_account(new_state, tx.sender, SatAdd(tx.amount, tx.fee))
                   ELSE [ok |-> TRUE, st |-> new_state]
    IN  IF ~debited.ok THEN [applied |-> FALSE, st |-> new_state]
        ELSE [applied |-> TRUE,
              st |-> credit_account(debited.st, tx, current_height, COINBASE_MATURITY)]

\* lines 382-390
AddLockedReward(new_state, miner_address, reward, current_height) ==
    IF LockedReward(reward) > 0
    THEN add_locked_balance(new_state, miner_address, LockedReward(reward),
                            current_height + MINING_REWARD_LOCK_BLOCKS)
    ELSE new_state

(***************************************************************************)
(* The fee-indexed pool, src/src/consensus/mempool.rs.                     *)
(***************************************************************************)
\* HashMap and BTreeMap insert and remove
MapPut(f, k, v) == [x \in (DOMAIN f) \cup {k} |-> IF x = k THEN v ELSE f[x]]
MapDel(f, k) == [x \in (DOMAIN f) \ {k} |-> f[x]]

\* the least key of a BTreeMap that is not empty
FirstKey(f) == CHOOSE k \in DOMAIN f : \A x \in DOMAIN f : k <= x

Mempool_new(max_size) ==
    [transactions |-> [h \in {} |-> 0], by_fee |-> [f \in {} |-> <<>>],
     hash_to_fee |-> [h \in {} |-> 0], max_size |-> max_size]

Mempool_len(m) == Cardinality(DOMAIN m.transactions)

\* evict_lowest_fee: pops the last hash of the first bucket of by_fee
evict_lowest_fee(m) ==
    IF DOMAIN m.by_fee = {} THEN m
    ELSE LET fee_microunits == FirstKey(m.by_fee)
             tx_hashes == m.by_fee[fee_microunits]
             hash == tx_hashes[Len(tx_hashes)]
             rest == SubSeq(tx_hashes, 1, Len(tx_hashes) - 1)
         IN  IF tx_hashes = <<>>
             THEN [m EXCEPT !.by_fee = MapDel(@, fee_microunits)]
             ELSE [m EXCEPT !.transactions = MapDel(@, hash),
                            !.hash_to_fee = MapDel(@, hash),
                            !.by_fee = IF rest = <<>> THEN MapDel(@, fee_microunits)
                                       ELSE MapPut(@, fee_microunits, rest)]

\* Mempool::add: the pool it leaves and what it returns
Mempool_add(m, tx) ==
    LET full == IF Mempool_len(m) >= m.max_size THEN evict_lowest_fee(m) ELSE m
        tx_hash == TxHash(tx)
        bucket == IF tx.fee \in DOMAIN full.by_fee THEN full.by_fee[tx.fee] ELSE <<>>
    IN  IF tx_hash \in DOMAIN full.transactions
        THEN [m |-> full, result |-> "Err"]
        ELSE [m |-> [full EXCEPT !.by_fee = MapPut(@, tx.fee, Append(bucket, tx_hash)),
                                 !.hash_to_fee = MapPut(@, tx_hash, tx.fee),
                                 !.transactions = MapPut(@, tx_hash, tx)],
              result |-> "Ok"]

\* Mempool::remove
Mempool_remove(m, tx_hash) ==
    IF tx_hash \notin DOMAIN m.transactions THEN m
    ELSE IF tx_hash \notin DOMAIN m.hash_to_fee
    THEN [m EXCEPT !.transactions = MapDel(@, tx_hash)]
    ELSE LET fee_microunits == m.hash_to_fee[tx_hash]
             hashes == IF fee_microunits \in DOMAIN m.by_fee
                       THEN SelectSeq(m.by_fee[fee_microunits], LAMBDA h : h # tx_hash)
                       ELSE <<>>
         IN  [m EXCEPT !.transactions = MapDel(@, tx_hash),
                       !.hash_to_fee = MapDel(@, tx_hash),
                       !.by_fee = IF fee_microunits \notin DOMAIN @ THEN @
                                  ELSE IF hashes = <<>> THEN MapDel(@, fee_microunits)
                                  ELSE MapPut(@, fee_microunits, hashes)]

(***************************************************************************)
(* The node.                                                               *)
(***************************************************************************)
VARIABLES
    node,                  \* "down", "running" or "aborted" (panic in Blockchain::new)
    storage,               \* the sled database
    chain,                 \* Blockchain.chain
    pending_transactions,  \* Blockchain.pending_transactions
    account_state,         \* Blockchain.account_state
    pending_nonces,        \* Blockchain.pending_nonces
    orphaned_blocks,       \* Blockchain.orphaned_blocks
    clock,                 \* seconds since NowBase
    pending_writer,        \* the holder of the write side of pending_transactions
    client,                \* the add_transaction call of each submitting thread
    miner,                 \* the mine_pending_transactions call
    net,                   \* the add_network_block call
    mempool,               \* a Mempool of consensus/mempool.rs
    mining_task,           \* the mining task of rpc/server.rs and its token
    peer,                  \* a Peer of network/peer.rs, its handshake and its receive loop
    merkle,                \* a MerkleTree of core/merkle.rs, a proof of it and its verification
    discovery              \* the PeerDiscovery of network/discovery.rs

vars == <<node, storage, chain, pending_transactions, account_state, pending_nonces,
          orphaned_blocks, clock, pending_writer, client, miner, net, mempool,
          mining_task, peer, merkle, discovery>>

Clients == {"c1", "c2"}

Now == NowBase + clock

NullTx == SystemTx("", "", 0, 0)

UserTx(pk, recipient, amount, fee, nonce, ts) ==
    LET t == [sender |-> derive_address_from_pubkey(pk), recipient |-> recipient,
              amount |-> amount, timestamp |-> ts, signature |-> <<>>,
              public_key |-> pk, fee |-> fee, nonce |-> nonce, tx_type |-> "Transfer"]
    IN  [t EXCEPT !.signature = Sign(pk, get_signing_data(t))]

\* The transactions that clients submit.
Submissions ==
    {UserTx("pkA", "0xB", 600, 100, 1, NowBase),
     UserTx("pkA", "0xB", 600, 200, 1, NowBase),
     UserTx("pkA", "0xB", 100, 200, 2, NowBase),
     UserTx("pkA", "0xB", 600, 100, 2, NowBase),
     UserTx("pkA", "0xB", 2000, 100, 1, NowBase),
     UserTx("pkA", "0xB", 100, 50, 1, NowBase),
     UserTx("pkA", "0xB", 100, 100, 1, NowBase - TRANSACTION_EXPIRY_SECONDS - 1),
     [UserTx("pkA", "0xB", 100, 100, 1, NowBase) EXCEPT !.signature = Sign("pkB", <<>>)],
     [SystemTx("COINBASE", "0xA", 500, NowBase) EXCEPT !.fee = 300]}

\* What each client submits.
Submits(c) ==
    IF c = "c1" THEN Submissions
    ELSE {UserTx("pkA", "0xB", 600, 200, 1, NowBase)}

\* The account map of the data directory the node is started on: the
\* genesis grant as Blockchain::new credits it, and two funded accounts.
FundedState ==
    [a \in {GENESIS_ADDRESS, "0xA", "0xB"} |->
        CASE a = GENESIS_ADDRESS ->
                [balance |-> 0, nonce |-> 0, locked_balance |-> GENESIS_GRANT,
                 unlock_height |-> COINBASE_MATURITY]
          [] a = "0xA" -> [NewAccount EXCEPT !.balance = 1000]
          [] a = "0xB" -> [NewAccount EXCEPT !.balance = U64Max - 50]]

\* A data directory whose block 0 carries GENESIS_HASH.
FundedStorage ==
    save_account_state(
        set_chain_height(
            save_block(EmptyStorage,
                       [GenesisOfConstant EXCEPT !.hash = calculate_hash(GenesisOfConstant)]),
            1),
        FundedState)

IdleClient ==
    [pc |-> "idle", tx |-> NullTx, chain_nonce |-> 0, expected_nonce |-> 0,
     result |-> "None"]

IdleMiner ==
    [pc |-> "idle", miner_address |-> "", reward |-> 0, difficulty |-> 0,
     all_transactions |-> <<>>, new_state |-> AccountState_new, current_height |-> 0,
     i |-> 0, applied |-> <<>>, block |-> GenesisOfConstant, result |-> "None"]

\* no mining task has been started
IdleTask == [pc |-> "none", cancelled |-> FALSE, mining_state |-> "None", blocks_mined |-> 0]

(***************************************************************************)
(* The wire of network/protocol.rs.  A frame is the sequence of the fields *)
(* that bincode wrote: one field for a bare P2PMessage, three (message,    *)
(* hmac, nonce) for an AuthenticatedMessage.                               *)
(***************************************************************************)
PROTOCOL_VERSION == 1
NETWORK_SECRET == "0ca4cea3"
OtherSecret == "another network"
MaxQueue == 2

Version(version, height) ==
    [type |-> "Version", version |-> version, height |-> height, tx |-> NullTx]
VerAck == [type |-> "VerAck", version |-> 0, height |-> 0, tx |-> NullTx]
NewTx(tx) == [type |-> "NewTx", version |-> 0, height |-> 0, tx |-> tx]

serialize_message(msg) == <<msg>>

\* bincode::deserialize reads the leading value and allows trailing bytes
deserialize_message(data) ==
    IF data = <<>> THEN [ok |-> FALSE, message |-> VerAck]
    ELSE [ok |-> TRUE, message |-> data[1]]

HmacSha3_256(secret, message_bytes, nonce) == <<secret, message_bytes, nonce>>

\* AuthenticatedMessage::create in a build whose NETWORK_SECRET is `secret`
AuthenticatedMessage_create(secret, message, nonce) ==
    [message |-> message,
     hmac |-> HmacSha3_256(secret, serialize_message(message), nonce),
     nonce |-> nonce]

AuthenticatedMessage_verify(am) ==
    am.hmac = HmacSha3_256(NETWORK_SECRET, serialize_message(am.message), am.nonce)

serialize_envelope(am) == <<am.message, am.hmac, am.nonce>>

(***************************************************************************)
(* Merkle proofs, src/src/core/merkle.rs.                                  *)
(***************************************************************************)
RECURSIVE MerkleNodeOf(_)
\* build_tree: the MerkleNode built over a non-empty slice
MerkleNodeOf(hashes) ==
    IF Len(hashes) = 1 THEN [leaf |-> TRUE, hash |-> hashes[1]]
    ELSE LET mid == (Len(hashes) + 1) \div 2
             left_hashes == SubSeq(hashes, 1, mid)
             right_hashes == IF mid < Len(hashes)
                             THEN SubSeq(hashes, mid + 1, Len(hashes))
                             ELSE SubSeq(hashes, mid, mid)
             left == MerkleNodeOf(left_hashes)
             right == MerkleNodeOf(right_hashes)
         IN  [leaf |-> FALSE, hash |-> NodeHash(left.hash, right.hash),
              left |-> left, right |-> right]

RECURSIVE collect_proof(_, _, _, _, _)
\* collect_proof: the vector after the calls below the node nd; indexes from 0
collect_proof(nd, target_index, start, end, proof) ==
    IF nd.leaf THEN proof
    ELSE LET mid == (start + end) \div 2
         IN  IF target_index < mid
             THEN collect_proof(nd.left, target_index, start, mid,
                                Append(proof, <<nd.right.hash, FALSE>>))
             ELSE collect_proof(nd.right, target_index, mid, end,
                                Append(proof, <<nd.left.hash, TRUE>>))

\* generate_proof on the tree of `leaves`, for a hash that is among them
generate_proof(leaves, tx_hash) ==
    LET index == (CHOOSE i \in 1..Len(leaves) :
                     /\ leaves[i] = tx_hash
                     /\ \A j \in 1..(i - 1) : leaves[j] # tx_hash) - 1
    IN  [tx_hash |-> tx_hash,
         proof |-> collect_proof(MerkleNodeOf(leaves), index, 0, Len(leaves), <<>>)]

RECURSIVE FoldProof(_, _, _)
\* the loop of MerkleProof::verify from entry i on
FoldProof(current_hash, proof, i) ==
    IF i > Len(proof) THEN current_hash
    ELSE FoldProof(IF proof[i][2] THEN NodeHash(proof[i][1], current_hash)
                   ELSE NodeHash(current_hash, proof[i][1]),
                   proof, i + 1)

MerkleProof_verify(p, root_hash) == FoldProof(p.tx_hash, p.proof, 1) = root_hash

\* no tree built
IdleMerkle ==
    [pc |-> "none", leaves |-> <<>>, tx_hash |-> ZeroHash, root |-> ZeroHash,
     proof |-> <<>>, verified |-> FALSE]

(***************************************************************************)
(* Peer discovery, src/src/network/discovery.rs.                           *)
(***************************************************************************)
\* The addresses of the model: the one seed of the node, a peer on a public
\* address and one on a private address.
SeedAddr == "203.0.113.1:8333"
PublicAddr == "198.51.100.2:8333"
PrivateAddr == "10.0.0.3:8333"

seed_nodes == <<SeedAddr>>

is_routable_addr(addr) == addr # PrivateAddr

PeerMeta(addr, now_ts, source, reputation) ==
    [address |-> addr, last_seen |-> now_ts, failures |-> 0, source |-> source,
     reputation |-> reputation, banned_until |-> <<>>]

\* PeerDiscovery::new: no known peer
PeerDiscovery_new == [a \in {} |-> PeerMeta(a, 0, "Discovered", 0)]

\* peers.entry(addr).or_insert_with(..)
OrInsert(known_peers, addr, meta) ==
    IF addr \in DOMAIN known_peers THEN known_peers
    ELSE [x \in (DOMAIN known_peers) \cup {addr} |->
             IF x = addr THEN meta ELSE known_peers[x]]

add_peer_with_source(known_peers, addr, source, now_ts) ==
    OrInsert(known_peers, addr, PeerMeta(addr, now_ts, source, 0))

update_peer_seen(known_peers, addr, now_ts) ==
    IF addr \in DOMAIN known_peers
    THEN [known_peers EXCEPT ![addr].last_seen = now_ts,
                             ![addr].failures = 0,
                             ![addr].reputation = Min(@ + 1, 100)]
    ELSE known_peers

mark_peer_failed(known_peers, addr, now_ts) ==
    IF addr \notin DOMAIN known_peers THEN known_peers
    ELSE LET failures == known_peers[addr].failures + 1
             reputation == known_peers[addr].reputation - 5
             is_seed == known_peers[addr].source = "Seed"
             counted == [known_peers EXCEPT ![addr].failures = failures,
                                            ![addr].reputation = reputation]
             banned == IF ((failures > 3 /\ reputation < -20) \/ failures > 10) /\ ~is_seed
                       THEN [counted EXCEPT ![addr].banned_until =
                                                <<now_ts + 3600 * (failures \div 3)>>]
                       ELSE counted
         IN  IF reputation < -50 /\ ~is_seed
             THEN [x \in (DOMAIN banned) \ {addr} |-> banned[x]]
             ELSE banned

RECURSIVE BootstrapFrom(_, _, _)
\* the loop of bootstrap from seed number i on
BootstrapFrom(known_peers, i, now_ts) ==
    IF i > Len(seed_nodes) THEN known_peers
    ELSE BootstrapFrom(OrInsert(known_peers, seed_nodes[i],
                                PeerMeta(seed_nodes[i], now_ts, "Seed", 50)),
                       i + 1, now_ts)

bootstrap(known_peers, now_ts) == BootstrapFrom(known_peers, 1, now_ts)

RECURSIVE ProcessAddrs(_, _, _, _, _)
\* the loop of process_addr_message over addrs.take(max_addrs)
ProcessAddrs(known_peers, addrs, i, max_addrs, now_ts) ==
    IF i > Len(addrs) \/ i > max_addrs THEN known_peers
    ELSE ProcessAddrs(IF is_routable_addr(addrs[i])
                      THEN OrInsert(known_peers, addrs[i],
                                    PeerMeta(addrs[i], now_ts, "Discovered", 0))
                      ELSE known_peers,
                      addrs, i + 1, max_addrs, now_ts)

process_addr_message(known_peers, addrs, max_addrs, now_ts) ==
    ProcessAddrs(known_peers, addrs, 1, max_addrs, now_ts)

\* no connection
IdlePeer ==
    [pc |-> "none", remote |-> "none", info |-> [version |-> 0, height |-> 0],
     log |-> <<>>, result |-> "None", queue |-> <<>>, frame |-> <<>>]

IdleNet == [pc |-> "idle", block |-> GenesisOfConstant, result |-> "None"]

Init ==
    /\ node = "down"
    /\ storage \in {EmptyStorage, FundedStorage}
    /\ chain = <<>>
    /\ pending_transactions = <<>>
    /\ account_state = AccountState_new
    /\ pending_nonces = [a \in {} |-> 0]
    /\ orphaned_blocks = <<>>
    /\ clock = 0
    /\ pending_writer = "none"
    /\ client = [c \in Clients |-> IdleClient]
    /\ miner = IdleMiner
    /\ net = IdleNet
    /\ mempool = Mempool_new(MaxPool)
    /\ mining_task = IdleTask
    /\ peer = IdlePeer
    /\ merkle = IdleMerkle
    /\ discovery = PeerDiscovery_new

Volatile == <<chain, pending_transactions, account_state, pending_nonces,
              orphaned_blocks, pending_writer, client, miner, net>>

\* Blockchain::new, lines 106-166; write number fail_at of the genesis
\* path returns an error (0: none does)
Blockchain_new(sto, fail_at) ==
    LET loaded == load_chain(sto)
        genesis == Block_genesis
        genesis_tx == SystemTx("COINBASE", GENESIS_ADDRESS, GENESIS_GRANT, genesis.timestamp)
        granted == credit_account(AccountState_new, genesis_tx, 0, COINBASE_MATURITY)
    IN  IF loaded = <<>>
        THEN IF genesis.hash # GENESIS_HASH
             THEN [outcome |-> "panic", storage |-> sto, chain |-> <<>>,
                   account_state |-> AccountState_new]
             ELSE IF fail_at # 0
             THEN [outcome |-> "error",
                   storage |-> StorageAfterWrites(sto, genesis, 1, granted, fail_at - 1),
                   chain |-> <<>>, account_state |-> AccountState_new]
             ELSE [outcome |-> "ok",
                   storage |-> StorageAfterWrites(sto, genesis, 1, granted, 3),
                   chain |-> <<genesis>>, account_state |-> granted]
        ELSE IF loaded[1].hash # GENESIS_HASH
             THEN [outcome |-> "panic", storage |-> sto, chain |-> <<>>,
                   account_state |-> AccountState_new]
             ELSE [outcome |-> "ok", storage |-> sto, chain |-> loaded,
                   account_state |-> load_account_state(sto)]

New ==
    /\ node = "down"
    /\ \E fail_at \in 0..3 :
         LET r == Blockchain_new(storage, fail_at)
         IN  /\ node' = CASE r.outcome = "ok" -> "running"
                          [] r.outcome = "panic" -> "aborted"
                          [] OTHER -> "down"
             /\ storage' = r.storage
             /\ chain' = r.chain
             /\ account_state' = r.account_state
    /\ UNCHANGED <<peer, mining_task, mempool, pending_transactions, pending_nonces, orphaned_blocks, clock, merkle, discovery,
                   pending_writer, client, miner, net>>

\* The process dies; what is in memory is lost.
Crash ==
    /\ node = "running"
    /\ node' = "down"
    /\ chain' = <<>>
    /\ pending_transactions' = <<>>
    /\ account_state' = AccountState_new
    /\ pending_nonces' = [a \in {} |-> 0]
    /\ orphaned_blocks' = <<>>
    /\ pending_writer' = "none"
    /\ client' = [c \in Clients |-> IdleClient]
    /\ miner' = IdleMiner
    /\ net' = IdleNet
    /\ mining_task' = IdleTask
    /\ peer' = IdlePeer
    /\ discovery' = PeerDiscovery_new
    /\ UNCHANGED <<mempool, storage, clock, merkle>>

Tick ==
    /\ clock < MaxClock
    /\ clock' = clock + 1
    /\ UNCHANGED <<peer, mining_task, mempool, node, storage, Volatile, merkle, discovery>>

(***************************************************************************)
(* add_transaction, lines 192-275, one step per lock or map access.        *)
(***************************************************************************)
ClientGoes(c, pc) == client' = [client EXCEPT ![c].pc = pc]
ClientEnds(c, result) == client' = [client EXCEPT ![c].pc = "done", ![c].result = result]

\* lines 193-222: the coinbase shortcut, the pool size, fee, expiry and
\* signature tests, for whoever calls add_transaction
add_transaction_enter(c, tx) ==
    /\ node = "running"
    /\ client[c].pc = "idle"
    /\ pending_writer = "none"
    /\ Len(pending_transactions) < MaxPending
    /\ IF is_coinbase(tx)
       THEN /\ pending_transactions' = Append(pending_transactions, tx)
            /\ client' = [client EXCEPT ![c] = [IdleClient EXCEPT !.pc = "done", !.tx = tx,
                                                                  !.result = "Ok"]]
       ELSE /\ UNCHANGED pending_transactions
            /\ client' = [client EXCEPT ![c] =
                 [IdleClient EXCEPT
                    !.tx = tx,
                    !.pc = IF \/ Len(pending_transactions) >= MAX_MEMPOOL_SIZE
                              \/ tx.fee < MIN_TRANSACTION_FEE
                              \/ tx.timestamp < Now - TRANSACTION_EXPIRY_SECONDS
                              \/ ~verify(tx)
                           THEN "done" ELSE "chain_nonce",
                    !.result = IF Len(pending_transactions) >= MAX_MEMPOOL_SIZE
                                  THEN "MempoolFull"
                               ELSE IF tx.fee < MIN_TRANSACTION_FEE THEN "FeeTooLow"
                               ELSE IF tx.timestamp < Now - TRANSACTION_EXPIRY_SECONDS
                                  THEN "TransactionExpired"
                               ELSE IF ~verify(tx) THEN "InvalidSignature"
                               ELSE "None"]]
    /\ UNCHANGED <<mining_task, mempool, node, storage, chain, account_state, pending_nonces, orphaned_blocks,
                   clock, merkle, discovery, pending_writer, miner, net>>

AddTxBegin(c, tx) == add_transaction_enter(c, tx) /\ UNCHANGED peer

\* line 225
AddTxChainNonce(c) ==
    /\ client[c].pc = "chain_nonce"
    /\ client' = [client EXCEPT ![c].pc = "expected",
                                ![c].chain_nonce = get_nonce(account_state, client[c].tx.sender)]
    /\ UNCHANGED <<peer, mining_task, mempool, node, storage, chain, pending_transactions, account_state,
                   pending_nonces, orphaned_blocks, clock, merkle, discovery, pending_writer, miner, net>>

\* entry(sender).or_insert(chain_nonce): the map after the access
EntryOrInsert(pn, sender, chain_nonce) ==
    IF sender \in DOMAIN pn THEN pn
    ELSE [a \in (DOMAIN pn) \cup {sender} |-> IF a = sender THEN chain_nonce ELSE pn[a]]

\* lines 229-233
ExpectedNonce(pn, sender, chain_nonce) ==
    Max(EntryOrInsert(pn, sender, chain_nonce)[sender], chain_nonce) + 1

\* lines 229-240
AddTxExpected(c) ==
    LET tx == client[c].tx
        expected_nonce == ExpectedNonce(pending_nonces, tx.sender, client[c].chain_nonce)
    IN  /\ client[c].pc = "expected"
        /\ pending_nonces' = EntryOrInsert(pending_nonces, tx.sender, client[c].chain_nonce)
        /\ client' = [client EXCEPT
                        ![c].expected_nonce = expected_nonce,
                        ![c].pc = IF tx.nonce # expected_nonce THEN "done" ELSE "bump",
                        ![c].result = IF tx.nonce # expected_nonce THEN "InvalidNonce"
                                      ELSE "None"]
        /\ UNCHANGED <<peer, mining_task, mempool, node, storage, chain, pending_transactions, account_state,
                       orphaned_blocks, clock, merkle, discovery, pending_writer, miner, net>>

\* lines 243-249
AddTxBump(c) ==
    LET tx == client[c].tx
    IN  /\ client[c].pc = "bump"
        /\ pending_nonces' = [a \in (DOMAIN pending_nonces) \cup {tx.sender} |->
                                 IF a = tx.sender THEN tx.nonce ELSE pending_nonces[a]]
        /\ IF TxSize(tx) > MAX_TRANSACTION_SIZE_BYTES
           THEN ClientEnds(c, "BlockTooLarge")
           ELSE ClientGoes(c, "balance")
        /\ UNCHANGED <<peer, mining_task, mempool, node, storage, chain, pending_transactions, account_state,
                       orphaned_blocks, clock, merkle, discovery, pending_writer, miner, net>>

\* lines 252-260
AddTxBalance(c) ==
    LET tx == client[c].tx
    IN  /\ client[c].pc = "balance"
        /\ IF get_balance(account_state, tx.sender) < SatAdd(tx.amount, tx.fee)
           THEN ClientEnds(c, "InsufficientBalance")
           ELSE ClientGoes(c, "duplicate")
        /\ UNCHANGED <<peer, mining_task, mempool, node, storage, chain, pending_transactions, account_state,
                       pending_nonces, orphaned_blocks, clock, merkle, discovery, pending_writer, miner, net>>

\* lines 263-270
AddTxDuplicate(c) ==
    LET tx == client[c].tx
    IN  /\ client[c].pc = "duplicate"
        /\ pending_writer = "none"
        /\ IF \E i \in 1..Len(pending_transactions) :
                 TxHash(pending_transactions[i]) = TxHash(tx)
           THEN ClientEnds(c, "DuplicateTransaction")
           ELSE ClientGoes(c, "push")
        /\ UNCHANGED <<peer, mining_task, mempool, node, storage, chain, pending_transactions, account_state,
                       pending_nonces, orphaned_blocks, clock, merkle, discovery, pending_writer, miner, net>>

\* line 272
AddTxPush(c) ==
    /\ client[c].pc = "push"
    /\ pending_writer = "none"
    /\ pending_transactions' = Append(pending_transactions, client[c].tx)
    /\ ClientEnds(c, "Ok")
    /\ UNCHANGED <<peer, mining_task, mempool, node, storage, chain, account_state, pending_nonces, orphaned_blocks,
                   clock, merkle, discovery, pending_writer, miner, net>>

AddTxReturn(c) ==
    /\ client[c].pc = "done"
    /\ client' = [client EXCEPT ![c] = IdleClient]
    /\ UNCHANGED <<peer, mining_task, mempool, node, storage, chain, pending_transactions, account_state,
                   pending_nonces, orphaned_blocks, clock, merkle, discovery, pending_writer, miner, net>>

(***************************************************************************)
(* mine_pending_transactions, lines 278-427.                               *)
(***************************************************************************)
Miners == {"0xM"}

\* lines 279-361: reward and difficulty, the write guard on the pool, the
\* selection and the coinbase and treasury transactions
MineBegin(miner_address) ==
    /\ node = "running"
    /\ miner.pc = "idle"
    /\ pending_writer = "none"
    /\ pending_writer' = "miner"
    /\ LET reward == get_mining_reward(chain)
           transactions == SelectForBlock(SortByFeeDesc(pending_transactions), 1, <<>>, 0)
       IN  miner' = [IdleMiner EXCEPT
                        !.pc = "clone",
                        !.miner_address = miner_address,
                        !.reward = reward,
                        !.difficulty = calculate_next_difficulty(chain),
                        !.all_transactions =
                            AssembleTransactions(transactions, reward, miner_address, Now)]
    /\ UNCHANGED <<peer, mining_task, mempool, node, storage, chain, pending_transactions, account_state,
                   pending_nonces, orphaned_blocks, clock, merkle, discovery, client, net>>

\* lines 364-368
MineClone ==
    /\ miner.pc = "clone"
    /\ miner' = [miner EXCEPT
                    !.pc = "apply",
                    !.current_height = Len(chain),
                    !.new_state = unlock_mature_coinbase(account_state, Len(chain)),
                    !.i = 1]
    /\ UNCHANGED <<peer, mining_task, mempool, node, storage, chain, pending_transactions, account_state,
                   pending_nonces, orphaned_blocks, clock, merkle, discovery, pending_writer, client, net>>

\* lines 371-380, one transaction
MineApply ==
    /\ miner.pc = "apply"
    /\ miner.i <= Len(miner.all_transactions)
    /\ LET r == MineApplyTx(miner.new_state, miner.all_transactions[miner.i],
                            miner.current_height)
       IN  miner' = [miner EXCEPT !.new_state = r.st,
                                  !.applied = Append(@, r.applied),
                                  !.i = @ + 1]
    /\ UNCHANGED <<peer, mining_task, mempool, node, storage, chain, pending_transactions, account_state,
                   pending_nonces, orphaned_blocks, clock, merkle, discovery, pending_writer, client, net>>

\* lines 382-395
MineAssemble ==
    /\ miner.pc = "apply"
    /\ miner.i > Len(miner.all_transactions)
    /\ miner' = [miner EXCEPT
                    !.pc = "pow",
                    !.new_state = AddLockedReward(@, miner.miner_address, miner.reward,
                                                  miner.current_height),
                    !.block = Block_new(Len(chain), miner.all_transactions,
                                        chain[Len(chain)].hash, miner.difficulty, Now)]
    /\ UNCHANGED <<peer, mining_task, mempool, node, storage, chain, pending_transactions, account_state,
                   pending_nonces, orphaned_blocks, clock, merkle, discovery, pending_writer, client, net>>

\* line 397, one turn of the loop of Block::mine
MineHash ==
    /\ miner.pc = "pow"
    /\ LET r == MineAttempt(miner.block)
       IN  miner' = [miner EXCEPT !.block = r.block,
                                  !.pc = IF r.found THEN "gate" ELSE "pow"]
    /\ UNCHANGED <<peer, mining_task, mempool, node, storage, chain, pending_transactions, account_state,
                   pending_nonces, orphaned_blocks, clock, merkle, discovery, pending_writer, client, net>>

Memory == NodeState(chain, account_state, pending_transactions, pending_nonces, storage,
                    "None")

\* lines 399-426
MineGate ==
    /\ miner.pc = "gate"
    /\ \E fail_at \in 0..3 :
         LET r == MineGateAndCommit(Memory, miner.block, miner.new_state, fail_at)
         IN  /\ chain' = r.chain
             /\ account_state' = r.account_state
             /\ pending_transactions' = r.pending_transactions
             /\ pending_nonces' = r.pending_nonces
             /\ storage' = r.storage
             /\ miner' = [miner EXCEPT !.pc = "done", !.result = r.result]
    /\ pending_writer' = "none"
    /\ UNCHANGED <<peer, mining_task, mempool, node, orphaned_blocks, clock, merkle, discovery, client, net>>

MineReturn ==
    /\ miner.pc = "done"
    /\ miner' = IdleMiner
    /\ UNCHANGED <<peer, mining_task, mempool, node, storage, chain, pending_transactions, account_state,
                   pending_nonces, orphaned_blocks, clock, merkle, discovery, pending_writer, client, net>>

(***************************************************************************)
(* The mining task of src/src/rpc/server.rs: handle_start_mining spawns a  *)
(* loop around mine_pending_transactions, handle_stop_mining cancels its   *)
(* token.  One task is followed from its start to its end.                 *)
(***************************************************************************)
\* lines 177-203: refused while a mining state is set
handle_start_mining ==
    /\ node = "running"
    /\ mining_task.mining_state = "None"
    /\ mining_task.pc \in {"none", "stopped"}
    /\ mining_task' = [pc |-> "check", cancelled |-> FALSE, mining_state |-> "Some",
                       blocks_mined |-> 0]
    /\ UNCHANGED <<peer, mempool, node, storage, chain, pending_transactions, account_state,
                   pending_nonces, orphaned_blocks, clock, merkle, discovery, pending_writer, client, miner,
                   net>>

\* lines 251-277
handle_stop_mining ==
    /\ node = "running"
    /\ mining_task.mining_state = "Some"
    /\ mining_task' = [mining_task EXCEPT !.cancelled = TRUE, !.mining_state = "None"]
    /\ UNCHANGED <<peer, mempool, node, storage, chain, pending_transactions, account_state,
                   pending_nonces, orphaned_blocks, clock, merkle, discovery, pending_writer, client, miner,
                   net>>

\* lines 212-216: the test of the token at the head of the loop
TaskCheck ==
    /\ mining_task.pc = "check"
    /\ mining_task' = [mining_task EXCEPT
                          !.pc = IF mining_task.cancelled THEN "stopped" ELSE "attempt"]
    /\ UNCHANGED <<peer, mempool, node, storage, chain, pending_transactions, account_state,
                   pending_nonces, orphaned_blocks, clock, merkle, discovery, pending_writer, client, miner,
                   net>>

\* line 219: the call of mine_pending_transactions
TaskMine ==
    /\ mining_task.pc = "attempt"
    /\ \E a \in Miners : MineBegin(a)

\* lines 219-233: the call has returned; Ok counts a block
TaskResult ==
    /\ mining_task.pc = "attempt"
    /\ miner.pc = "done"
    /\ miner' = IdleMiner
    /\ mining_task' = [mining_task EXCEPT
                          !.pc = "sleep",
                          !.blocks_mined = IF miner.result = "Ok" THEN @ + 1 ELSE @]
    /\ UNCHANGED <<peer, mempool, node, storage, chain, pending_transactions, account_state,
                   pending_nonces, orphaned_blocks, clock, merkle, discovery, pending_writer, client, net>>

\* line 236: the pause between attempts
TaskSleep ==
    /\ mining_task.pc = "sleep"
    /\ mining_task' = [mining_task EXCEPT !.pc = "check"]
    /\ UNCHANGED <<peer, mempool, node, storage, chain, pending_transactions, account_state,
                   pending_nonces, orphaned_blocks, clock, merkle, discovery, pending_writer, client, miner,
                   net>>

(***************************************************************************)
(* add_network_block, lines 792-845.                                       *)
(***************************************************************************)
\* orphans.push(block) after dropping the oldest of a full pool
PushOrphan(orphans, block) ==
    IF Len(orphans) >= MAX_ORPHAN_BLOCKS THEN Append(Tail(orphans), block)
    ELSE Append(orphans, block)

\* add_network_block: the node and the orphan pool it leaves
add_network_block(n, orphans, block, now_ts, fail_at) ==
    LET latest == n.chain[Len(n.chain)]
    IN  IF \E i \in 1..Len(n.chain) : n.chain[i].hash = block.hash
        THEN [n |-> [n EXCEPT !.result = "Ok"], orphans |-> orphans]
        ELSE IF block.previous_hash = latest.hash /\ block.index = latest.index + 1
        THEN [n |-> add_block_to_main_chain(n, block, now_ts, fail_at), orphans |-> orphans]
        ELSE IF block.index > latest.index
        THEN [n |-> [n EXCEPT !.result = "Ok"], orphans |-> PushOrphan(orphans, block)]
        ELSE IF block.index = latest.index
        THEN [n |-> [n EXCEPT !.result = "Ok"], orphans |-> PushOrphan(orphans, block)]
        ELSE [n |-> [n EXCEPT !.result = "Ok"], orphans |-> orphans]

RECURSIVE Mined(_)
\* Block::mine run to its end
Mined(b) ==
    LET r == MineAttempt(b)
    IN  IF r.found THEN r.block ELSE Mined(r.block)

\* The blocks that peers send to a node whose tail is `latest`.
PeerBlocks(latest, now_ts) ==
    LET index == latest.index + 1
        reward == calculate_reward_at_height(index)
        coinbase(ts) == SystemTx("COINBASE", "0xP", ImmediateReward(reward), ts)
        treasury(ts) == SystemTx("TREASURY", TREASURY_ADDRESS, TreasuryAllocation(reward), ts)
        next_ts == latest.timestamp + 1
        bare == Mined(Block_new(index, <<coinbase(next_ts)>>, latest.hash,
                                latest.difficulty, next_ts))
    IN  { \* the block a miner of this program builds
          Mined(Block_new(index, <<coinbase(next_ts), treasury(next_ts)>>, latest.hash,
                          latest.difficulty, next_ts)),
          \* no treasury transaction
          bare,
          \* stamped with the receiver's wall clock
          Mined(Block_new(index, <<coinbase(now_ts)>>, latest.hash, latest.difficulty,
                          now_ts)),
          \* another difficulty than the tail's
          Mined(Block_new(index, <<coinbase(next_ts)>>, latest.hash, MIN_DIFFICULTY,
                          next_ts)),
          \* no proof of work
          Block_new(index, <<>>, latest.hash, latest.difficulty, next_ts),
          \* a hash that is not the header's
          [bare EXCEPT !.hash = <<"X", 1>>],
          \* ahead of the tail, at the tail's height, and the tail itself
          Block_new(index + 1, <<>>, <<"X", 2>>, latest.difficulty, next_ts),
          Block_genesis,
          latest }

\* add_network_block as one step: the chain is read under its own lock and
\* only this call and the miner's commit write it
DeliverBlock(block) ==
    /\ node = "running"
    /\ net.pc = "idle"
    /\ Len(orphaned_blocks) < MaxOrphans
    /\ \E fail_at \in 0..3 :
         LET r == add_network_block(Memory, orphaned_blocks, block, Now, fail_at)
         IN  /\ (r.n.chain # chain /\ r.n.result = "Ok") => pending_writer = "none"
             /\ chain' = r.n.chain
             /\ account_state' = r.n.account_state
             /\ pending_transactions' = r.n.pending_transactions
             /\ pending_nonces' = r.n.pending_nonces
             /\ storage' = r.n.storage
             /\ orphaned_blocks' = r.orphans
             /\ net' = [pc |-> "done", block |-> block, result |-> r.n.result]
    /\ UNCHANGED <<peer, mining_task, mempool, node, clock, merkle, discovery, pending_writer, client, miner>>

\* a peer sends one of its blocks
Deliver ==
    /\ node = "running"
    /\ \E block \in PeerBlocks(chain[Len(chain)], Now) : DeliverBlock(block)

NetReturn ==
    /\ net.pc = "done"
    /\ net' = IdleNet
    /\ UNCHANGED <<peer, mining_task, mempool, node, storage, chain, pending_transactions, account_state,
                   pending_nonces, orphaned_blocks, clock, merkle, discovery, pending_writer, client, miner>>

(***************************************************************************)
(* A node that holds blocks above genesis, and a peer on another branch.   *)
(***************************************************************************)
RECURSIVE MineApplyAll(_, _, _, _)
\* the loop of lines 371-380 from transaction i on
MineApplyAll(new_state, transactions, i, current_height) ==
    IF i > Len(transactions) THEN new_state
    ELSE MineApplyAll(MineApplyTx(new_state, transactions[i], current_height).st,
                      transactions, i + 1, current_height)

\* lines 307-397 on an empty pool: the block that miner_address mines on prev
MinedOn(prev, miner_address, ts) ==
    Mined(Block_new(prev.index + 1,
                    AssembleTransactions(<<>>, calculate_reward_at_height(prev.index + 1),
                                         miner_address, ts),
                    prev.hash, prev.difficulty, ts))

\* lines 364-390: the account state that the miner of block b commits with it
MinedState(st, b) ==
    AddLockedReward(
        MineApplyAll(unlock_mature_coinbase(st, b.index), b.transactions, 1, b.index),
        b.transactions[1].recipient, calculate_reward_at_height(b.index), b.index)

\* The chain [G, B1, B2] of the node, mined by 0xM.
ForkChain ==
    LET G == load_chain(FundedStorage)[1]
        B1 == MinedOn(G, "0xM", NowBase - 20)
        B2 == MinedOn(B1, "0xM", NowBase - 10)
    IN  <<G, B1, B2>>

\* The chain [G, B1', B2', B3'] of the peer, mined by 0xP at the same
\* difficulty: one block more, so more cumulative work.
CompetingChain ==
    LET G == load_chain(FundedStorage)[1]
        B1 == MinedOn(G, "0xP", NowBase - 19)
        B2 == MinedOn(B1, "0xP", NowBase - 9)
        B3 == MinedOn(B2, "0xP", NowBase - 1)
    IN  <<G, B1, B2, B3>>

RECURSIVE StateOfChain(_, _, _)
\* the account state after the blocks of ch from position i on
StateOfChain(st, ch, i) ==
    IF i > Len(ch) THEN st ELSE StateOfChain(MinedState(st, ch[i]), ch, i + 1)

\* A data directory that holds ForkChain and its account state.
ForkStorage ==
    save_account_state(
        set_chain_height(
            save_block(save_block(FundedStorage, ForkChain[2]), ForkChain[3]),
            3),
        StateOfChain(FundedState, ForkChain, 2))

InitFork ==
    /\ node = "down"
    /\ storage = ForkStorage
    /\ chain = <<>>
    /\ pending_transactions = <<>>
    /\ account_state = AccountState_new
    /\ pending_nonces = [a \in {} |-> 0]
    /\ orphaned_blocks = <<>>
    /\ clock = 0
    /\ pending_writer = "none"
    /\ client = [c \in Clients |-> IdleClient]
    /\ miner = IdleMiner
    /\ net = IdleNet
    /\ mempool = Mempool_new(MaxPool)
    /\ mining_task = IdleTask
    /\ peer = IdlePeer
    /\ merkle = IdleMerkle
    /\ discovery = PeerDiscovery_new

\* the peer sends a block of its branch, or one the node has
DeliverFork ==
    /\ node = "running"
    /\ \E block \in {CompetingChain[i] : i \in 1..4} \cup {ForkChain[i] : i \in 2..3} :
          DeliverBlock(block)

(***************************************************************************)
(* Calls on the fee-indexed pool.                                          *)
(***************************************************************************)
\* The transactions offered to the pool: three fees, three transactions each.
PoolSubmissions ==
    {UserTx("pkA", "0xB", 100, fee, nonce, NowBase) :
        fee \in {100, 200, 300}, nonce \in {1, 2, 3}}

MempoolAdd ==
    /\ \E tx \in PoolSubmissions : mempool' = Mempool_add(mempool, tx).m
    /\ UNCHANGED <<peer, mining_task, node, storage, chain, pending_transactions, account_state,
                   pending_nonces, orphaned_blocks, clock, merkle, discovery, pending_writer, client, miner,
                   net>>

MempoolRemove ==
    /\ \E tx_hash \in DOMAIN mempool.transactions :
          mempool' = Mempool_remove(mempool, tx_hash)
    /\ UNCHANGED <<peer, mining_task, node, storage, chain, pending_transactions, account_state,
                   pending_nonces, orphaned_blocks, clock, merkle, discovery, pending_writer, client, miner,
                   net>>

(***************************************************************************)
(* A node started on a data directory that holds a chain at a retarget     *)
(* height, or one block short of it.                                       *)
(***************************************************************************)
RetargetLengths == {10, 19, 20}
RetargetSpacings == {2, 10, 11, 50}
RetargetDifficulties == {4, 5, 6, 7}

RECURSIVE RetargetChain(_, _, _)
\* ch extended to len blocks mined by 0xM, `spacing` seconds apart, the
\* last of them ten seconds before NowBase
RetargetChain(ch, len, spacing) ==
    IF Len(ch) >= len THEN ch
    ELSE RetargetChain(
             Append(ch, MinedOn(ch[Len(ch)], "0xM",
                                NowBase - 10 - (len - 1 - Len(ch)) * spacing)),
             len, spacing)

RECURSIVE SaveBlocks(_, _, _)
SaveBlocks(sto, ch, i) ==
    IF i > Len(ch) THEN sto ELSE SaveBlocks(save_block(sto, ch[i]), ch, i + 1)

RECURSIVE StateAfter(_, _, _)
\* the account state after the blocks of ch from position i on, each
\* state computed before the next block is applied
StateAfter(st, ch, i) ==
    IF i > Len(ch) \/ DOMAIN st = {} THEN st
    ELSE StateAfter(MinedState(st, ch[i]), ch, i + 1)

\* A data directory that holds the chain and the account state that its
\* miner committed with each block.
RetargetStorage(len, spacing) ==
    LET ch == RetargetChain(<<load_chain(FundedStorage)[1]>>, len, spacing)
    IN  save_account_state(
            set_chain_height(SaveBlocks(FundedStorage, ch, 2), len),
            StateAfter(FundedState, ch, 2))

InitRetarget ==
    /\ node = "down"
    /\ storage \in {RetargetStorage(len, spacing) :
                      len \in RetargetLengths, spacing \in RetargetSpacings}
    /\ chain = <<>>
    /\ pending_transactions = <<>>
    /\ account_state = AccountState_new
    /\ pending_nonces = [a \in {} |-> 0]
    /\ orphaned_blocks = <<>>
    /\ clock = 0
    /\ pending_writer = "none"
    /\ client = [c \in Clients |-> IdleClient]
    /\ miner = IdleMiner
    /\ net = IdleNet
    /\ mempool = Mempool_new(MaxPool)
    /\ mining_task = IdleTask
    /\ peer = IdlePeer
    /\ merkle = IdleMerkle
    /\ discovery = PeerDiscovery_new

\* the block that a peer mines on `latest` at difficulty d, as lines
\* 307-397 build it
RetargetCandidate(latest, d) ==
    LET index == latest.index + 1
        ts == latest.timestamp + 1
    IN  Mined(Block_new(index,
                        AssembleTransactions(<<>>, calculate_reward_at_height(index),
                                             "0xP", ts),
                        latest.hash, d, ts))

\* a peer sends its next block, at one difficulty or another
DeliverRetarget ==
    /\ node = "running"
    /\ \E d \in RetargetDifficulties :
          DeliverBlock(RetargetCandidate(chain[Len(chain)], d))

(***************************************************************************)
(* A node started on a data directory whose tail was mined in the second   *)
(* the node's clock shows, the second before, or the second after.         *)
(***************************************************************************)
StampOffsets == {-1, 0, 1}

StampChain(offset) ==
    LET G == load_chain(FundedStorage)[1]
    IN  <<G, MinedOn(G, "0xM", NowBase + offset)>>

StampStorage(offset) ==
    LET ch == StampChain(offset)
    IN  save_account_state(
            set_chain_height(save_block(FundedStorage, ch[2]), 2),
            StateAfter(FundedState, ch, 2))

InitStamp ==
    /\ node = "down"
    /\ storage \in {StampStorage(offset) : offset \in StampOffsets}
    /\ chain = <<>>
    /\ pending_transactions = <<>>
    /\ account_state = AccountState_new
    /\ pending_nonces = [a \in {} |-> 0]
    /\ orphaned_blocks = <<>>
    /\ clock = 0
    /\ pending_writer = "none"
    /\ client = [c \in Clients |-> IdleClient]
    /\ miner = IdleMiner
    /\ net = IdleNet
    /\ mempool = Mempool_new(MaxPool)
    /\ mining_task = IdleTask
    /\ peer = IdlePeer
    /\ merkle = IdleMerkle
    /\ discovery = PeerDiscovery_new

(***************************************************************************)
(* A connection to one peer: Peer::handshake, the receive loop and the     *)
(* message handling of p2p/network.rs.                                     *)
(***************************************************************************)
\* What the remote end can write: its messages bare, as send_message writes
\* them, or in the envelope of its own build.
RemoteVersions == {PROTOCOL_VERSION, PROTOCOL_VERSION + 1}

RemoteMessages ==
    {Version(v, 1) : v \in RemoteVersions}
        \cup {VerAck, NewTx(UserTx("pkA", "0xB", 600, 200, 1, NowBase))}

RemoteFrames(secret) ==
    {serialize_message(m) : m \in RemoteMessages}
        \cup {serialize_envelope(AuthenticatedMessage_create(secret, m, 7)) :
                m \in RemoteMessages}

\* connect_to_peer, p2p/network.rs 168-184, to a node of either network
connect_to_peer ==
    /\ node = "running"
    /\ peer.pc \in {"none", "failed"}
    /\ \E secret \in {NETWORK_SECRET, OtherSecret} :
         peer' = [IdlePeer EXCEPT !.pc = "send_version", !.remote = secret]
    /\ UNCHANGED <<node, storage, chain, pending_transactions, account_state, pending_nonces,
                   orphaned_blocks, clock, merkle, discovery, pending_writer, client, miner, net, mempool,
                   mining_task>>

\* send_message, network/peer.rs 58-82: the message goes out bare
send_message(p, msg) == [p EXCEPT !.log = Append(@, <<"sent", serialize_message(msg)>>)]

\* handshake, lines 157-164
HandshakeSendVersion ==
    /\ node = "running"
    /\ peer.pc = "send_version"
    /\ peer' = [send_message(peer, Version(PROTOCOL_VERSION, Len(chain)))
                   EXCEPT !.pc = "recv_version"]
    /\ UNCHANGED <<node, storage, chain, pending_transactions, account_state, pending_nonces,
                   orphaned_blocks, clock, merkle, discovery, pending_writer, client, miner, net, mempool,
                   mining_task>>

\* handshake, lines 167-169 and 183
HandshakeReceiveVersion ==
    /\ node = "running"
    /\ peer.pc = "recv_version"
    /\ \E data \in RemoteFrames(peer.remote) :
         LET r == deserialize_message(data)
         IN  peer' =
               IF r.ok /\ r.message.type = "Version"
               THEN [peer EXCEPT !.pc = "send_verack", !.frame = data,
                                 !.log = Append(@, <<"received", data>>),
                                 !.info = [version |-> r.message.version,
                                           height |-> r.message.height]]
               ELSE [peer EXCEPT !.pc = "failed", !.frame = data,
                                 !.log = Append(@, <<"received", data>>),
                                 !.result = "Expected Version message"]
    /\ UNCHANGED <<node, storage, chain, pending_transactions, account_state, pending_nonces,
                   orphaned_blocks, clock, merkle, discovery, pending_writer, client, miner, net, mempool,
                   mining_task>>

\* handshake, line 172
HandshakeSendVerAck ==
    /\ node = "running"
    /\ peer.pc = "send_verack"
    /\ peer' = [send_message(peer, VerAck) EXCEPT !.pc = "recv_verack"]
    /\ UNCHANGED <<node, storage, chain, pending_transactions, account_state, pending_nonces,
                   orphaned_blocks, clock, merkle, discovery, pending_writer, client, miner, net, mempool,
                   mining_task>>

\* handshake, lines 175-181; on Ok the caller adds the peer and spawns
\* receive_from_peer (p2p/network.rs 184-201)
HandshakeReceiveVerAck ==
    /\ node = "running"
    /\ peer.pc = "recv_verack"
    /\ \E data \in RemoteFrames(peer.remote) :
         LET r == deserialize_message(data)
         IN  peer' =
               IF r.ok /\ r.message.type = "VerAck"
               THEN [peer EXCEPT !.pc = "connected", !.frame = data,
                                 !.log = Append(@, <<"received", data>>),
                                 !.result = "Ok"]
               ELSE [peer EXCEPT !.pc = "failed", !.frame = data,
                                 !.log = Append(@, <<"received", data>>),
                                 !.result = "Expected VerAck"]
    /\ UNCHANGED <<node, storage, chain, pending_transactions, account_state, pending_nonces,
                   orphaned_blocks, clock, merkle, discovery, pending_writer, client, miner, net, mempool,
                   mining_task>>

\* receive_from_peer, p2p/network.rs 207-228: a frame read by
\* receive_message_internal is queued for process_messages
receive_from_peer ==
    /\ node = "running"
    /\ peer.pc = "connected"
    /\ Len(peer.queue) < MaxQueue
    /\ \E data \in RemoteFrames(peer.remote) :
         LET r == deserialize_message(data)
         IN  peer' = IF r.ok
                     THEN [peer EXCEPT !.frame = data, !.queue = Append(@, r.message)]
                     ELSE [peer EXCEPT !.frame = data, !.pc = "none"]
    /\ UNCHANGED <<node, storage, chain, pending_transactions, account_state, pending_nonces,
                   orphaned_blocks, clock, merkle, discovery, pending_writer, client, miner, net, mempool,
                   mining_task>>

\* handle_message, p2p/network.rs 242-283: NewTx goes to
\* handle_new_transaction (286-300), which calls add_transaction; the
\* handshake messages fall to the default arm
handle_message ==
    /\ node = "running"
    /\ peer.queue # <<>>
    /\ peer' = [peer EXCEPT !.queue = Tail(@)]
    /\ IF Head(peer.queue).type = "NewTx"
       THEN add_transaction_enter("c2", Head(peer.queue).tx)
       ELSE UNCHANGED <<node, storage, chain, pending_transactions, account_state,
                        pending_nonces, orphaned_blocks, clock, merkle, discovery, pending_writer, client,
                        miner, net, mempool, mining_task>>

(***************************************************************************)
(* The specifications.  The peer side shares no variable that it or the    *)
(* other threads change before a commit, so it is also run on its own.     *)
(***************************************************************************)
Lifecycle == New \/ Crash \/ Tick

Submitting ==
    \/ \E c \in Clients : \E tx \in Submits(c) : AddTxBegin(c, tx)
    \/ \E c \in Clients : AddTxChainNonce(c)
    \/ \E c \in Clients : AddTxExpected(c)
    \/ \E c \in Clients : AddTxBump(c)
    \/ \E c \in Clients : AddTxBalance(c)
    \/ \E c \in Clients : AddTxDuplicate(c)
    \/ \E c \in Clients : AddTxPush(c)
    \/ \E c \in Clients : AddTxReturn(c)

Mining ==
    \/ \E a \in Miners : MineBegin(a)
    \/ MineClone
    \/ MineApply
    \/ MineAssemble
    \/ MineHash
    \/ MineGate
    \/ MineReturn

Receiving == Deliver \/ NetReturn

Next == Lifecycle \/ Submitting \/ Mining \/ Receiving

Spec == Init /\ [][Next]_vars

\* clients and miner
NextNode == Lifecycle \/ Submitting \/ Mining

SpecNode == Init /\ [][NextNode]_vars

\* peers only
NextNet == Lifecycle \/ Receiving

SpecNet == Init /\ [][NextNet]_vars

\* A node on the chain [G, B1, B2] and a peer on a longer branch.
NextFork == Lifecycle \/ DeliverFork \/ NetReturn

SpecFork == InitFork /\ [][NextFork]_vars

\* The mining task: the miner runs only as the task's attempt, while one
\* client submits.
SubmittingOne ==
    \/ \E tx \in Submits("c2") : AddTxBegin("c2", tx)
    \/ AddTxChainNonce("c2")
    \/ AddTxExpected("c2")
    \/ AddTxBump("c2")
    \/ AddTxBalance("c2")
    \/ AddTxDuplicate("c2")
    \/ AddTxPush("c2")
    \/ AddTxReturn("c2")

NextTask ==
    \/ Lifecycle
    \/ SubmittingOne
    \/ handle_start_mining
    \/ handle_stop_mining
    \/ TaskCheck
    \/ TaskMine
    \/ MineClone
    \/ MineApply
    \/ MineAssemble
    \/ MineHash
    \/ MineGate
    \/ TaskResult
    \/ TaskSleep

SpecTask == Init /\ [][NextTask]_vars

\* The fee-indexed pool on its own: no other structure refers to it.
\* the add_transaction call that handle_new_transaction made
HandlingTx ==
    \/ AddTxChainNonce("c2")
    \/ AddTxExpected("c2")
    \/ AddTxBump("c2")
    \/ AddTxBalance("c2")
    \/ AddTxDuplicate("c2")
    \/ AddTxPush("c2")
    \/ AddTxReturn("c2")

\* A node and one connection.
NextPeer ==
    \/ Lifecycle
    \/ connect_to_peer
    \/ HandshakeSendVersion
    \/ HandshakeReceiveVersion
    \/ HandshakeSendVerAck
    \/ HandshakeReceiveVerAck
    \/ receive_from_peer
    \/ handle_message
    \/ HandlingTx

SpecPeer == Init /\ [][NextPeer]_vars

\* A node at or near a retarget height, its miner and a peer.
NextRetarget == Lifecycle \/ Mining \/ DeliverRetarget \/ NetReturn

SpecRetarget == InitRetarget /\ [][NextRetarget]_vars

\* A node whose tail is as old as its clock, its miner and a peer.
NextStamp == Lifecycle \/ Mining \/ Receiving

SpecStamp == InitStamp /\ [][NextStamp]_vars

\* What the client of the assembly runs submits: two transactions that
\* pass under the sender name COINBASE (lines 193-197 test nothing else) with
\* recipient strings about as long as a block, and two transfers of 0xA.
SizedSubmissions ==
    {[SystemTx("COINBASE", "0xBlockLong", 1, NowBase) EXCEPT !.fee = 300],
     [SystemTx("COINBASE", "0xNearlyBlockLong", 1, NowBase) EXCEPT !.fee = 300],
     UserTx("pkA", "0xB", 100, 200, 1, NowBase),
     UserTx("pkA", "0xB", 100, 100, 2, NowBase)}

SubmittingSized ==
    \/ \E tx \in SizedSubmissions : AddTxBegin("c1", tx)
    \/ AddTxChainNonce("c1")
    \/ AddTxExpected("c1")
    \/ AddTxBump("c1")
    \/ AddTxBalance("c1")
    \/ AddTxDuplicate("c1")
    \/ AddTxPush("c1")
    \/ AddTxReturn("c1")

\* One client and the miner.
NextAssemble == Lifecycle \/ SubmittingSized \/ Mining

SpecAssemble == Init /\ [][NextAssemble]_vars

NextPool == MempoolAdd \/ MempoolRemove

InitPool == Init /\ storage = EmptyStorage

SpecPool == InitPool /\ [][NextPool]_vars

(***************************************************************************)
(* Properties.                                                             *)
(***************************************************************************)
Running == node = "running"

\* the miner is where mine_pending_transactions tests the mined block
AtGate == Running /\ miner.pc = "gate"

\* the step is one turn of the apply loop of mine_pending_transactions
MineApplies == miner.pc = "apply" /\ miner'.pc = "apply" /\ miner'.i = miner.i + 1

\* the transaction that turn of the loop is about
MineApplied == miner.all_transactions[miner.i]

\* C1: every user transaction t that the apply loop of
\* mine_pending_transactions debits, into the state it is about to commit,
\* moves its sender's nonce exactly from t.nonce - 1 to t.nonce.
C1_NonceStepsToTxNonce ==
    [][(MineApplies /\ IsUserTx(MineApplied) /\ miner'.applied[miner.i])
          => /\ get_nonce(miner.new_state, MineApplied.sender) = MineApplied.nonce - 1
             /\ get_nonce(miner'.new_state, MineApplied.sender) = MineApplied.nonce]_vars

\* C2: the pending pool never holds two different user transactions of one
\* sender that claim the same nonce, whatever the interleaving of the
\* add_transaction calls that brought them.
C2_OneAcceptedPerNonce ==
    \A i, j \in 1..Len(pending_transactions) :
        LET a == pending_transactions[i]
            b == pending_transactions[j]
        IN  (i < j /\ IsUserTx(a) /\ IsUserTx(b) /\ a.sender = b.sender
                   /\ TxHash(a) # TxHash(b))
               => a.nonce # b.nonce

\* every balance and locked balance of a state is a u64
InU64(st) ==
    \A a \in DOMAIN st : /\ st[a].balance \in 0..U64Max
                         /\ st[a].locked_balance \in 0..U64Max

\* one turn of the apply loop debits only what the sender's balance covers,
\* then takes exactly amount + fee, and otherwise leaves the state alone
DebitIsCovered ==
    LET tx == MineApplied
        total == tx.amount + tx.fee
        before == get_balance(miner.new_state, tx.sender)
    IN  (MineApplies /\ IsUserTx(tx)) =>
           IF tx.sender \in DOMAIN miner.new_state /\ before >= total
           THEN /\ miner'.applied[miner.i]
                /\ get_balance(miner'.new_state, tx.sender)
                      = before - total + (IF tx.recipient = tx.sender THEN tx.amount ELSE 0)
           ELSE /\ ~miner'.applied[miner.i]
                /\ miner'.new_state = miner.new_state

\* C3: in the committed state, in the state the miner prepares and in the
\* persisted state, every balance and locked balance stays within 0 and the
\* largest u64; a debit happens only when the balance covers amount + fee,
\* subtracts exactly that, and a debit that is not covered changes nothing.
C3_BalancesNeverWrap ==
    /\ [](InU64(account_state) /\ InU64(miner.new_state)
             /\ InU64(load_account_state(storage)))
    /\ [][DebitIsCovered]_vars

\* C3 witness: the miner has debited one user transaction, refused the next
\* for lack of funds, and a credit has saturated at the largest u64
C3_DebitedAndRefused ==
    /\ AtGate
    /\ \E i, j \in 1..Len(miner.applied) :
          /\ IsUserTx(miner.all_transactions[i]) /\ miner.applied[i]
          /\ IsUserTx(miner.all_transactions[j]) /\ ~miner.applied[j]
    /\ get_balance(miner.new_state, "0xB") = U64Max

\* the memory a call leaves is the memory it found
MemoryKept(r) ==
    /\ r.chain = chain
    /\ r.account_state = account_state
    /\ r.pending_transactions = pending_transactions

\* C4: a delivery that returns an error leaves chain, account state and
\* pending pool as they were, and so does the commit sequence of
\* add_block_to_main_chain (lines 881-906) when one of its three storage
\* writes fails, for each block that peers send.
C4_FailedCommitKeepsMemory ==
    Running =>
       \A block \in PeerBlocks(chain[Len(chain)], Now) :
          /\ \A fail_at \in 0..3 :
                LET r == add_network_block(Memory, orphaned_blocks, block, Now, fail_at).n
                IN  r.result # "Ok" => MemoryKept(r)
          /\ \A fail_at \in 1..3 :
                LET r == NetworkCommit(Memory, block,
                                       NetworkNewState(account_state, block).st, fail_at)
                IN  r.result # "Ok" /\ MemoryKept(r)

\* what a restart reads from a storage: the chain and the account state
Persisted(sto) == <<load_chain(sto), load_account_state(sto)>>

\* C5: when the miner is about to commit its block, a crash after any
\* number of the three storage writes (lines 406-408) leaves a storage
\* from which a restart reads either the old chain with the old account
\* state or the chain with the block and the account state after it.
C5_CrashLeavesOldOrNew ==
    AtGate =>
       \A n \in 0..3 :
          LET crashed == StorageAfterWrites(storage, miner.block, miner.block.index + 1,
                                            miner.new_state, n)
          IN  \/ Persisted(crashed) = Persisted(storage)
              \/ Persisted(crashed) = <<Append(load_chain(storage), miner.block),
                                        miner.new_state>>

\* C6: the block that mine_pending_transactions has mined is accepted by
\* add_network_block on a node with the chain and account state the miner
\* started from.
C6_MinedBlockIsAccepted ==
    AtGate =>
       LET r == add_network_block(Memory, <<>>, miner.block, Now, 0).n
       IN  r.result = "Ok" /\ r.chain = Append(chain, miner.block)

\* C7: applying the mined block as add_block_to_main_chain does (lines
\* 864-879) to the account state the miner started from succeeds and gives
\* the account state the miner prepared (lines 364-390).
C7_NetworkStateIsMinedState ==
    AtGate =>
       LET r == NetworkNewState(account_state, miner.block)
       IN  r.ok /\ r.st = miner.new_state

\* C8: every transaction of the block the miner is about to commit was
\* applied to the account state it is about to commit.
C8_BlockHoldsOnlyApplied ==
    AtGate => \A i \in 1..Len(miner.block.transactions) : miner.applied[i]

\* a chain that starts at the genesis block and is linked by index and hash
Linked(ch) ==
    /\ ch # <<>>
    /\ ch[1].index = 0
    /\ ch[1].hash = GENESIS_HASH
    /\ \A i \in 2..Len(ch) : /\ ch[i].index = i - 1
                             /\ ch[i].previous_hash = ch[i - 1].hash

HashAndRootMatch(b) ==
    /\ b.hash = calculate_hash(b)
    /\ b.merkle_root = MerkleRootOf(b.transactions)

\* the hash begins with b.difficulty zero nibbles
MeetsDifficulty(b) == LeadingZeros(b.hash) >= b.difficulty

CoinbaseTxs(b) == SelectSeq(b.transactions, is_coinbase)

\* C11: every block added after genesis holds exactly one transaction with
\* sender COINBASE, and its amount is the immediate share of the reward at
\* the block's index plus the validator's share of the fees of the block's
\* user transactions, whatever was submitted through add_transaction. The
\* blocks after genesis are the chain's and the one the miner has mined for
\* the chain's next index.
C11_OneCoinbaseOfRightAmount ==
    LET Right(b) ==
            /\ Len(CoinbaseTxs(b)) = 1
            /\ CoinbaseTxs(b)[1].amount
                  = SatAdd(ImmediateReward(calculate_reward_at_height(b.index)),
                           FeeToMiner(UserFees(b.transactions)))
    IN  Running => /\ \A i \in 2..Len(chain) : Right(chain[i])
                   /\ AtGate => Right(miner.block)

\* calculate_total_supply (lines 750-758): the amounts of the transactions
\* with sender COINBASE, summed over the chain
calculate_total_supply(ch) ==
    SumSeq([k \in 1..Len(ch) |->
               SumSeq([j \in 1..Len(ch[k].transactions) |->
                          IF is_coinbase(ch[k].transactions[j])
                          THEN ch[k].transactions[j].amount ELSE 0])])

\* the amounts of the coinbase and treasury transactions of a chain
MintedAmounts(ch) ==
    SumSeq([k \in 1..Len(ch) |->
               SumSeq([j \in 1..Len(ch[k].transactions) |->
                          IF IsUserTx(ch[k].transactions[j])
                          THEN 0 ELSE ch[k].transactions[j].amount])])

\* the burned part of the fees of the user transactions of a chain
BurnedFees(ch) ==
    SumSeq([k \in 1..Len(ch) |-> PctOf(UserFees(ch[k].transactions), FEE_BURN_PERCENT)])

\* C12: the total supply the node reports is the sum of the amounts of all
\* coinbase and treasury transactions in the chain minus the burned fees;
\* stated of the chain and of the chain that the miner's block extends.
C12_SupplyIsMintedLessBurned ==
    LET Right(ch) == calculate_total_supply(ch) = MintedAmounts(ch) - BurnedFees(ch)
    IN  Running => /\ Right(chain)
                   /\ AtGate => Right(Append(chain, miner.block))

\* the pool holds no transaction with the hash of a transaction of block b
NoneMined(pend, b) ==
    \A i \in 1..Len(pend) : \A j \in 1..Len(b.transactions) :
        TxHash(pend[i]) # TxHash(b.transactions[j])

C14_AdvancedNonceHasItsTx ==
    Running =>
        \A a \in DOMAIN pending_nonces :
            pending_nonces[a] > get_nonce(account_state, a) =>
                \/ \E i \in 1..Len(pending_transactions) :
                      /\ pending_transactions[i].sender = a
                      /\ pending_transactions[i].nonce = pending_nonces[a]
                \/ \E c \in Clients :
                      /\ client[c].pc \in {"balance", "duplicate", "push"}
                      /\ client[c].tx.sender = a
                      /\ client[c].tx.nonce = pending_nonces[a]

\* C15: when the pool is at capacity, adding a transaction that it does not
\* hold and whose fee exceeds the pool's minimum fee evicts one transaction
\* of that minimum fee and accepts the new one; adding one whose fee does
\* not exceed the minimum is rejected and leaves the pool unchanged.
C15_EvictsOnlyForHigherFee ==
    \A tx \in PoolSubmissions :
        LET r == Mempool_add(mempool, tx)
            min_fee == FirstKey(mempool.by_fee)
            held == DOMAIN mempool.transactions
            evicted == held \ DOMAIN r.m.transactions
        IN  (Mempool_len(mempool) >= mempool.max_size /\ TxHash(tx) \notin held) =>
                IF tx.fee > min_fee
                THEN /\ r.result = "Ok"
                     /\ DOMAIN r.m.transactions \ held = {TxHash(tx)}
                     /\ Cardinality(evicted) = 1
                     /\ \A h \in evicted : mempool.transactions[h].fee = min_fee
                ELSE /\ r.result = "Err"
                     /\ r.m = mempool

RECURSIVE DeliverAll(_, _, _, _, _)
\* add_network_block for blocks[i], blocks[i + 1], ... one after the other
DeliverAll(n, orphans, blocks, i, now_ts) ==
    IF i > Len(blocks) THEN [n |-> n, orphans |-> orphans]
    ELSE LET r == add_network_block(n, orphans, blocks[i], now_ts, 0)
         IN  DeliverAll(r.n, r.orphans, blocks, i + 1, now_ts)

\* C16: a node whose chain is [G, B1, B2] and that is delivered B1', B2',
\* B3' of the longer competing chain, one after the other, ends with B3' as
\* its tail, with the account state of G, B1', B2', B3', and without B1 and
\* B2 in its chain.
C16_HeavierChainReplacesOurs ==
    (Running /\ chain = ForkChain /\ net.pc = "idle") =>
        LET r == DeliverAll(Memory, orphaned_blocks, CompetingChain, 2, Now)
        IN  /\ r.n.chain[Len(r.n.chain)].hash = CompetingChain[4].hash
            /\ r.n.account_state = StateOfChain(FundedState, CompetingChain, 2)
            /\ \A i \in 1..Len(r.n.chain) :
                  r.n.chain[i].hash \notin {ForkChain[2].hash, ForkChain[3].hash}

\* add_network_block has just returned for the block net'.block
Delivered == net.pc = "idle" /\ net'.pc = "done"

\* block b is in the chain by its hash
KnownBlock(b) == \E i \in 1..Len(chain) : chain[i].hash = b.hash

\* block b does not extend the tail and is not above it
StaleBlock(b) ==
    LET latest == chain[Len(chain)]
    IN  /\ ~(b.previous_hash = latest.hash /\ b.index = latest.index + 1)
        /\ b.index <= latest.index

\* C17: add_network_block leaves the chain, the account state, the pending
\* pool and the orphan pool unchanged when the delivered block's hash is in
\* the chain, and when the block does not extend the tail and its index is
\* at most the tail's.
C17_KnownAndStaleChangeNothing ==
    [][(Delivered /\ (KnownBlock(net'.block) \/ StaleBlock(net'.block)))
          => UNCHANGED <<chain, account_state, pending_transactions, orphaned_blocks>>]_vars

\* block b stands at a checkpoint height with another hash than the checkpoint's
ViolatesCheckpoint(b) == ~validate_checkpoint(b.index, b.hash)

\* C18: a delivered block at a checkpoint height whose hash is not the
\* checkpoint's is rejected with an error, and is neither appended to the
\* chain nor stored in the orphan pool.
C18_CheckpointViolationRejected ==
    Running =>
        /\ (net.pc = "done" /\ ViolatesCheckpoint(net.block)) => net.result # "Ok"
        /\ \A i \in 1..Len(orphaned_blocks) : ~ViolatesCheckpoint(orphaned_blocks[i])
        /\ \A i \in 1..Len(chain) : ~ViolatesCheckpoint(chain[i])

\* C19: a coinbase credit made by the block at height h stays in
\* locked_balance at the heights below h + COINBASE_MATURITY and is moved
\* into the spendable balance by the unlock of a block at height
\* h + COINBASE_MATURITY; stated of every coinbase transaction of the block
\* the miner has applied at height h.
C19_CoinbaseMaturesAtMaturity ==
    AtGate =>
        LET h == miner.current_height
            st == miner.new_state
            txs == miner.block.transactions
        IN  \A j \in 1..Len(txs) :
                (is_coinbase(txs[j]) /\ txs[j].amount > 0) =>
                    /\ \A k \in {h + 1, h + COINBASE_MATURITY - 1} :
                          Entry(unlock_mature_coinbase(st, k), txs[j].recipient).locked_balance
                              >= txs[j].amount
                    /\ get_balance(unlock_mature_coinbase(st, h + COINBASE_MATURITY),
                                   txs[j].recipient)
                          >= SatAdd(get_balance(st, txs[j].recipient), txs[j].amount)

\* The credits that a later block can make to address a: a coinbase
\* transaction and a transfer.
LaterCredits(a) ==
    {SystemTx("COINBASE", a, 500, NowBase), UserTx("pkA", a, 100, 100, 1, NowBase)}

\* C20: the locked portion of the miner's reward for the block at height h
\* is not spendable before height h + MINING_REWARD_LOCK_BLOCKS, whatever
\* credit the block at height h + 1 makes to the miner's address.
C20_VestedLockOutlastsLaterCredits ==
    (AtGate /\ LockedReward(miner.reward) > 0) =>
        LET h == miner.current_height
            a == miner.miner_address
            before == unlock_mature_coinbase(miner.new_state, h + 1)
        IN  \A tx \in LaterCredits(a) :
                LET after == credit_account(before, tx, h + 1, COINBASE_MATURITY)
                IN  \A k \in {h + 1 + COINBASE_MATURITY, h + MINING_REWARD_LOCK_BLOCKS - 1} :
                        Entry(unlock_mature_coinbase(after, k), a).locked_balance
                            >= LockedReward(miner.reward)

\* a restart on storage sto: Blockchain::new with every write succeeding
Reopened(sto) == Blockchain_new(sto, 0)

\* Blockchain::new on the storage of node state n rebuilds n's chain and
\* account state
RestartRebuilds(n) ==
    /\ Reopened(n.storage).outcome = "ok"
    /\ Reopened(n.storage).chain = n.chain
    /\ Reopened(n.storage).account_state = n.account_state

Blockchain_is_valid(ch) ==
    /\ ch[1].index = 0
    /\ \A i \in 2..Len(ch) : is_valid(ch[i], ch[i - 1])

\* C22: Blockchain::new on an empty storage gives a running node whose
\* chain is one block of index 0, for which is_valid() is true and
\* get_balance of the genesis distribution address is the genesis grant.
C22_FreshNodeHoldsGenesis ==
    [][(node = "down" /\ storage = EmptyStorage /\ node' # "down") =>
          /\ node' = "running"
          /\ Len(chain') = 1
          /\ chain'[1].index = 0
          /\ Blockchain_is_valid(chain')
          /\ get_balance(account_state', GENESIS_ADDRESS) = GENESIS_GRANT]_vars

\* lines 410-412: the memory after each lock the mining commit takes and
\* releases: account_state.write(), then chain.write()
MinedCommitMemory(n, block, new_state) ==
    <<[n EXCEPT !.account_state = new_state],
      [n EXCEPT !.account_state = new_state, !.chain = Append(@, block)]>>

\* lines 882-890: the memory after each lock the network commit takes and
\* releases: chain.write(), then, after the three storage writes,
\* account_state.write()
NetworkCommitMemory(n, block, new_state) ==
    <<[n EXCEPT !.chain = Append(@, block)],
      [n EXCEPT !.chain = Append(@, block), !.account_state = new_state]>>

\* C23: during the mining commit and the network commit of a block, a
\* reader of the chain and of the account state finds both before the block
\* or both after it: never the state of height h with the chain of height
\* h - 1, nor the chain of height h with the state of height h - 1.
C23_ReadersSeeBlockWhole ==
    AtGate =>
        LET Whole(m) ==
                \/ m.chain = chain /\ m.account_state = account_state
                \/ /\ m.chain = Append(chain, miner.block)
                   /\ m.account_state = miner.new_state
            mined == MinedCommitMemory(Memory, miner.block, miner.new_state)
            network == NetworkCommitMemory(Memory, miner.block, miner.new_state)
        IN  /\ \A k \in 1..Len(mined) : Whole(mined[k])
            /\ \A k \in 1..Len(network) : Whole(network[k])

\* C24: while the mining call is in the proof-of-work loop of Block::mine
\* it holds no lock of the pending pool, so that add_transaction calls are
\* not held up; the write side is taken for the commit only.
C24_NoLockWhileHashing ==
    (Running /\ miner.pc = "pow") => pending_writer = "none"

\* the token of the running task has been cancelled
Cancelled == mining_task.cancelled /\ mining_task.pc # "stopped"

\* C25: once stop_mining has cancelled the task's token, the task at the
\* head of its loop ends instead of starting an attempt, the attempt in
\* progress makes no further turn of the hash loop, and no block is
\* committed.
C25_CancelStopsTheTask ==
    [][Cancelled =>
          /\ mining_task.pc = "check" => mining_task'.pc \in {"check", "stopped", "none"}
          /\ ~(miner.pc = "pow" /\ miner'.pc \in {"pow", "gate"} /\ miner' # miner)
          /\ Len(chain') <= Len(chain)]_vars

(***************************************************************************)
(* The peer connection.                                                    *)
(***************************************************************************)
FrameVerifies(data) ==
    /\ Len(data) = 3
    /\ AuthenticatedMessage_verify([message |-> data[1], hmac |-> data[2],
                                    nonce |-> data[3]])

\* C26: a frame is queued for message handling only if it is an
\* authenticated envelope whose HMAC verifies under the local secret; and
\* with a remote of another network secret the handshake never succeeds and
\* no step adds to the chain or to the pending pool.
C26_OnlyVerifiedFramesAreHandled ==
    [][/\ Len(peer'.queue) > Len(peer.queue) => FrameVerifies(peer'.frame)
       /\ peer.remote = OtherSecret =>
            /\ peer'.result # "Ok"
            /\ Len(chain') <= Len(chain)
            /\ Len(pending_transactions') <= Len(pending_transactions)]_vars

LogKinds(p) ==
    [i \in 1..Len(p.log) |-> <<p.log[i][1], deserialize_message(p.log[i][2]).message.type>>]

LastReceived(p) == deserialize_message(p.log[Len(p.log)][2]).message

\* C27: the handshake succeeds only after Version was sent, Version
\* received, VerAck sent and VerAck received, in that order; it fails with
\* an error when another message arrives in place of Version or VerAck, and
\* when the Version received names another protocol version than ours.
C27_HandshakeInOrderOrAborts ==
    [][/\ (peer'.result = "Ok" /\ peer.result # "Ok") =>
            LogKinds(peer') = <<<<"sent", "Version">>, <<"received", "Version">>,
                                <<"sent", "VerAck">>, <<"received", "VerAck">>>>
       /\ (/\ peer.pc = "recv_version"
           /\ Len(peer'.log) > Len(peer.log)
           /\ \/ LastReceived(peer').type # "Version"
              \/ LastReceived(peer').version # PROTOCOL_VERSION)
            => peer'.pc = "failed" /\ peer'.result \notin {"None", "Ok"}
       /\ (/\ peer.pc = "recv_verack"
           /\ Len(peer'.log) > Len(peer.log)
           /\ LastReceived(peer').type # "VerAck")
            => peer'.pc = "failed" /\ peer'.result \notin {"None", "Ok"}]_vars

(***************************************************************************)
(* Nonces within one block.                                                *)
(***************************************************************************)
\* two transfers of 0xA, which its balance covers, with nonces n1 and n2
TwoFromOneSender(n1, n2) ==
    <<UserTx("pkA", "0xB", 100, 100, n1, NowBase),
      UserTx("pkA", "0xB", 100, 100, n2, NowBase)>>

\* C28: validation of a block's transactions advances the sender's scratch
\* nonce by one per transaction: two funded transactions of one sender pass
\* exactly when their nonces are n+1 and n+2, n the committed nonce.
C28_ConsecutiveNoncesPass ==
    (Running /\ "0xA" \in DOMAIN account_state) =>
        \A n1, n2 \in 1..4 :
            LET n == get_nonce(account_state, "0xA")
            IN  ValidateTxs(TwoFromOneSender(n1, n2), 1, account_state, Len(chain)) = "Ok"
                    <=> (n1 = n + 1 /\ n2 = n + 2)

(***************************************************************************)
(* Difficulty.                                                             *)
(***************************************************************************)
\* C29: network validation passes the difficulty of a block exactly when it
\* is the value calculate_next_difficulty gives on the receiver's chain, so
\* the block the miner builds passes it.
C29_ValidationFollowsRetarget ==
    /\ Running =>
         \A d \in RetargetDifficulties :
            LET tail == chain[Len(chain)]
            IN  validate_block_consensus(RetargetCandidate(tail, d), tail,
                                         account_state, Now) # "InvalidDifficulty"
                    <=> d = calculate_next_difficulty(chain)
    /\ AtGate =>
         validate_block_consensus(miner.block, chain[Len(chain)], account_state, Now)
             # "InvalidDifficulty"

CeilDiv(a, b) == (a + b - 1) \div b

Clamp(x, lo, hi) == Min(Max(x, lo), hi)

\* the retarget rule for block b on the chain ch
RetargetRule(ch, b) ==
    LET h == b.index
        D == ch[Len(ch)].difficulty
        expected == TARGET_BLOCK_TIME * DIFFICULTY_ADJUSTMENT_INTERVAL
        actual == b.timestamp - ch[h - DIFFICULTY_ADJUSTMENT_INTERVAL + 1].timestamp
        actual_clamped == Clamp(actual, expected \div 4, 4 * expected)
    IN  IF h % DIFFICULTY_ADJUSTMENT_INTERVAL = 0 /\ h >= DIFFICULTY_ADJUSTMENT_INTERVAL
        THEN Clamp(Clamp((D * expected) \div actual_clamped,
                         CeilDiv(3 * D, 4), (5 * D) \div 4),
                   MIN_DIFFICULTY, MAX_DIFFICULTY)
        ELSE D

\* C30: the block mined at a height h that is a multiple of the interval
\* carries clamp(clamp(D * expected / actual', ceil(3D/4), floor(5D/4)),
\* MIN_DIFFICULTY, MAX_DIFFICULTY), actual being the time from block
\* h - interval to block h; at any other height it carries the tail's
\* difficulty.
C30_RetargetAtIntervalElseCarried ==
    (Running /\ miner.pc \in {"pow", "gate"}) =>
        miner.block.difficulty = RetargetRule(chain, miner.block)

(***************************************************************************)
(* Timestamps along the chain.                                             *)
(***************************************************************************)
TimestampsIncrease(ch) == \A i \in 2..Len(ch) : ch[i].timestamp > ch[i - 1].timestamp

\* C31: timestamps strictly increase along the chain, in memory and after
\* the commit of the block the miner has built and of each block a peer
\* sends: a block as old as its parent, or older, is not committed.
C31_TimestampsStrictlyIncrease ==
    /\ TimestampsIncrease(chain)
    /\ AtGate => TimestampsIncrease(MinedCommit(Memory, miner.block, miner.new_state, 0).chain)
    /\ Running =>
         \A b \in PeerBlocks(chain[Len(chain)], Now) :
            /\ TimestampsIncrease(add_block_to_main_chain(Memory, b, Now, 0).chain)
            /\ validate_block_consensus(
                   [b EXCEPT !.timestamp = chain[Len(chain)].timestamp],
                   chain[Len(chain)], account_state, Now) # "Ok"

(***************************************************************************)
(* Block assembly.                                                         *)
(***************************************************************************)
RECURSIVE SelectSkipping(_, _, _, _)
\* the selection that passes over a transaction that does not fit
SelectSkipping(sorted_txs, i, transactions, block_size) ==
    IF i > Len(sorted_txs) THEN transactions
    ELSE IF Len(transactions) >= MAX_BLOCK_TRANSACTIONS THEN transactions
    ELSE IF block_size + TxSize(sorted_txs[i]) > MAX_BLOCK_SIZE_BYTES
         THEN SelectSkipping(sorted_txs, i + 1, transactions, block_size)
    ELSE SelectSkipping(sorted_txs, i + 1, Append(transactions, sorted_txs[i]),
                        block_size + TxSize(sorted_txs[i]))

Assembling == Running /\ miner.pc \in {"clone", "apply", "pow", "gate"}

\* C32: the transactions the miner assembles are the pending ones in
\* non-increasing fee order, a transaction that would pass the byte budget
\* left out and the ones after it that fit still taken, up to the count limit.
C32_AssemblySkipsWhatDoesNotFit ==
    Assembling =>
        \E k \in 0..clock :
            miner.all_transactions =
                AssembleTransactions(
                    SelectSkipping(SortByFeeDesc(pending_transactions), 1, <<>>, 0),
                    miner.reward, miner.miner_address, NowBase + k)

\* C33: the block the miner builds, with its coinbase and treasury
\* transactions and its header, is at most MAX_BLOCK_SIZE_BYTES long and
\* holds at most MAX_BLOCK_TRANSACTIONS transactions, so that it passes the
\* size rule of network validation.
C33_MinedBlockWithinLimits ==
    (Running /\ miner.pc \in {"pow", "gate"}) =>
        /\ BlockSize(miner.block) <= MAX_BLOCK_SIZE_BYTES
        /\ Len(miner.block.transactions) <= MAX_BLOCK_TRANSACTIONS
        /\ validate_block_consensus(miner.block, chain[Len(chain)], account_state, Now)
               # "BlockTooLarge"

(***************************************************************************)
(* Nonces in the pending pool.                                             *)
(***************************************************************************)
\* the pending transactions of the pool p that a user signed
UserPending(p) == {i \in 1..Len(p) : IsUserTx(p[i])}

\* C34: the pending transactions of one sender carry pairwise distinct
\* nonces, each above the sender's committed nonce.
C34_PendingNoncesDistinctAndAhead ==
    Running =>
        \A i \in UserPending(pending_transactions) :
            /\ pending_transactions[i].nonce
                  > get_nonce(account_state, pending_transactions[i].sender)
            /\ \A j \in UserPending(pending_transactions) :
                  (i # j /\ pending_transactions[i].sender = pending_transactions[j].sender)
                      => pending_transactions[i].nonce # pending_transactions[j].nonce

(***************************************************************************)
(* Value held by the accounts.                                             *)
(***************************************************************************)
RECURSIVE ValueChange(_, _, _)
\* by how much balance + locked_balance, summed over the accounts in as,
\* is larger in the state new than in the state old
ValueChange(old, new, as) ==
    IF as = {} THEN 0
    ELSE LET a == CHOOSE x \in as : TRUE
         IN  (Entry(new, a).balance - Entry(old, a).balance)
             + (Entry(new, a).locked_balance - Entry(old, a).locked_balance)
             + ValueChange(old, new, as \ {a})

\* the change of the value the accounts hold when the mined block commits
MinedChange ==
    ValueChange(account_state, miner.new_state,
                (DOMAIN account_state) \cup (DOMAIN miner.new_state))

\* the fees of the transactions the loop of lines 371-380 debited
FeesDebited ==
    SumSeq([i \in 1..Len(miner.all_transactions) |->
               IF IsUserTx(miner.all_transactions[i]) /\ miner.applied[i]
               THEN miner.all_transactions[i].fee ELSE 0])

\* the fee shares the coinbase and treasury transactions pay out
FeeSharesPaid ==
    LET total_fees == SumSeq([i \in 1..Len(miner.all_transactions) |->
                                 miner.all_transactions[i].fee])
    IN  FeeToMiner(total_fees) + FeeToTreasury(total_fees)

\* C35: the state a mined block commits holds the reward more and the
\* burned fees less than the state before it, and never more than the
\* reward more.
C35_BlockCreatesOnlyItsReward ==
    AtGate =>
        LET change == MinedChange
        IN  /\ change = miner.reward - (FeesDebited - FeeSharesPaid)
            /\ change <= miner.reward

(***************************************************************************)
(* Successors that arrive out of order.                                    *)
(***************************************************************************)
\* The chain [G, B1, B2, B3, B4] of a peer whose miner 0xP built four blocks
\* on the genesis block of the funded directory.
SuccessorChain ==
    LET G == load_chain(FundedStorage)[1]
        B1 == MinedOn(G, "0xP", G.timestamp + 1)
        B2 == MinedOn(B1, "0xP", G.timestamp + 2)
        B3 == MinedOn(B2, "0xP", G.timestamp + 3)
        B4 == MinedOn(B3, "0xP", G.timestamp + 4)
    IN  <<G, B1, B2, B3, B4>>

\* the peer sends one of its four blocks, in any order
DeliverSuccessor ==
    /\ node = "running"
    /\ \E i \in 2..5 : DeliverBlock(SuccessorChain[i])

NextOrphan == New \/ Tick \/ DeliverSuccessor \/ NetReturn

\* The read loop of a connection handles every frame that arrived and the
\* handler returns; the process starts; nothing obliges the clock.
SpecOrphan ==
    /\ Init
    /\ [][NextOrphan]_vars
    /\ WF_vars(New)
    /\ WF_vars(NetReturn)
    /\ \A i \in 2..5 : WF_vars(node = "running" /\ DeliverBlock(SuccessorChain[i]))

\* B2 waits in the orphan pool and add_network_block has just returned from B1
DeliveredOutOfOrder ==
    /\ Running
    /\ net.pc = "done"
    /\ net.block = SuccessorChain[2]
    /\ \E k \in 1..Len(orphaned_blocks) : orphaned_blocks[k] = SuccessorChain[3]

ExtendedWithBoth ==
    /\ Len(chain) >= 3
    /\ chain[2] = SuccessorChain[2]
    /\ chain[3] = SuccessorChain[3]

\* C36: once B2 and then B1 were delivered, the chain eventually holds B1
\* and B2.
C36_OrphanConnectsToItsParent == DeliveredOutOfOrder ~> ExtendedWithBoth

(***************************************************************************)
(* What the orphan pool holds.                                             *)
(***************************************************************************)
\* Block::is_valid(None): the tests that need no previous block
PassesCryptography(b) ==
    /\ b.hash = calculate_hash(b)
    /\ has_valid_hash(b)
    /\ b.merkle_root = MerkleRootOf(b.transactions)
    /\ \A i \in 1..Len(b.transactions) :
          is_coinbase(b.transactions[i]) \/ verify(b.transactions[i])

\* C37: every block in the orphan pool passes the hash, proof-of-work,
\* merkle-root and signature tests.
C37_OrphansAreValidated ==
    Running => \A k \in 1..Len(orphaned_blocks) : PassesCryptography(orphaned_blocks[k])

(***************************************************************************)
(* Trees and proofs over every short list of distinct leaf hashes.         *)
(***************************************************************************)
MaxLeaves == 4

LeafHashes == {<<"L", i>> : i \in 1..MaxLeaves}

\* the lists of distinct leaf hashes of 1 to MaxLeaves leaves
LeafLists ==
    {l \in UNION {[1..n -> LeafHashes] : n \in 1..MaxLeaves} :
        \A i, j \in 1..Len(l) : i # j => l[i] # l[j]}

\* MerkleTree::from_hashes_bytes
TreeFromHashes ==
    /\ merkle.pc = "none"
    /\ \E hashes \in LeafLists :
          merkle' = [merkle EXCEPT !.pc = "built", !.leaves = hashes,
                                   !.root = MerkleNodeOf(hashes).hash]
    /\ UNCHANGED <<node, storage, chain, pending_transactions, account_state,
                   pending_nonces, orphaned_blocks, clock, pending_writer, client, miner,
                   net, mempool, mining_task, peer, discovery>>

\* MerkleTree::generate_proof for one of the leaves
TreeGenerateProof ==
    /\ merkle.pc = "built"
    /\ \E i \in 1..Len(merkle.leaves) :
          LET p == generate_proof(merkle.leaves, merkle.leaves[i])
          IN  merkle' = [merkle EXCEPT !.pc = "proved", !.tx_hash = p.tx_hash,
                                       !.proof = p.proof]
    /\ UNCHANGED <<node, storage, chain, pending_transactions, account_state,
                   pending_nonces, orphaned_blocks, clock, pending_writer, client, miner,
                   net, mempool, mining_task, peer, discovery>>

\* MerkleProof::verify against the root of the tree
ProofVerify ==
    /\ merkle.pc = "proved"
    /\ merkle' = [merkle EXCEPT
                     !.pc = "verified",
                     !.verified = MerkleProof_verify([tx_hash |-> merkle.tx_hash,
                                                      proof |-> merkle.proof],
                                                     merkle.root)]
    /\ UNCHANGED <<node, storage, chain, pending_transactions, account_state,
                   pending_nonces, orphaned_blocks, clock, pending_writer, client, miner,
                   net, mempool, mining_task, peer, discovery>>

NextMerkle == TreeFromHashes \/ TreeGenerateProof \/ ProofVerify

SpecMerkle == Init /\ [][NextMerkle]_vars

RECURSIVE SiblingsBottomUp(_, _, _)
\* the siblings on the way from leaf number target (from 0) of the node nd
\* over count leaves up to nd, the lowest first
SiblingsBottomUp(nd, target, count) ==
    IF nd.leaf THEN <<>>
    ELSE LET mid == (count + 1) \div 2
         IN  IF target < mid
             THEN Append(SiblingsBottomUp(nd.left, target, mid),
                         <<nd.right.hash, FALSE>>)
             ELSE Append(SiblingsBottomUp(nd.right, target - mid, count - mid),
                         <<nd.left.hash, TRUE>>)

\* the position from 0 of the proved leaf
ProvedIndex == (CHOOSE i \in 1..Len(merkle.leaves) : merkle.leaves[i] = merkle.tx_hash) - 1

\* C38: the proof of a leaf lists its siblings from the leaf upwards, and
\* verify accepts it against the root of the tree.
C38_ProofIsBottomUpAndVerifies ==
    /\ merkle.pc \in {"proved", "verified"} =>
          merkle.proof = SiblingsBottomUp(MerkleNodeOf(merkle.leaves), ProvedIndex,
                                          Len(merkle.leaves))
    /\ merkle.pc = "verified" => merkle.verified

RECURSIVE LevelRoot(_)
\* the root built level by level: adjacent pairs, the last node of a level
\* of odd length paired with itself
LevelRoot(level) ==
    IF Len(level) = 1 THEN level[1]
    ELSE LET padded == IF Len(level) % 2 = 1 THEN Append(level, level[Len(level)])
                       ELSE level
         IN  LevelRoot([i \in 1..(Len(padded) \div 2) |->
                           NodeHash(padded[2 * i - 1], padded[2 * i])])

\* C39: the root of the tree is the root of the level-by-level construction.
C39_RootIsLevelByLevel ==
    merkle.pc # "none" => merkle.root = LevelRoot(merkle.leaves)

(***************************************************************************)
(* Calls on the peer discovery.                                            *)
(***************************************************************************)
MaxFailures == 12
SeenPerPeer == 1

\* the Addr messages of peers
AddrLists ==
    {<<SeedAddr>>, <<PublicAddr>>, <<PrivateAddr, PublicAddr>>, <<PublicAddr, SeedAddr>>}

\* add_peer: add_peer_with_source(addr, Discovered)
AddPeer ==
    /\ \E addr \in {SeedAddr, PublicAddr} :
          discovery' = add_peer_with_source(discovery, addr, "Discovered", Now)
    /\ UNCHANGED <<node, storage, chain, pending_transactions, account_state,
                   pending_nonces, orphaned_blocks, clock, pending_writer, client, miner,
                   net, mempool, mining_task, peer, merkle>>

ProcessAddrMessage ==
    /\ \E addrs \in AddrLists : \E max_addrs \in 1..2 :
          discovery' = process_addr_message(discovery, addrs, max_addrs, Now)
    /\ UNCHANGED <<node, storage, chain, pending_transactions, account_state,
                   pending_nonces, orphaned_blocks, clock, pending_writer, client, miner,
                   net, mempool, mining_task, peer, merkle>>

Bootstrap ==
    /\ discovery' = bootstrap(discovery, Now)
    /\ UNCHANGED <<node, storage, chain, pending_transactions, account_state,
                   pending_nonces, orphaned_blocks, clock, pending_writer, client, miner,
                   net, mempool, mining_task, peer, merkle>>

\* update_peer_seen, at most SeenPerPeer times for one peer
UpdatePeerSeen ==
    /\ \E addr \in DOMAIN discovery :
          /\ discovery[addr].reputation % 5 < SeenPerPeer
          /\ discovery' = update_peer_seen(discovery, addr, Now)
    /\ UNCHANGED <<node, storage, chain, pending_transactions, account_state,
                   pending_nonces, orphaned_blocks, clock, pending_writer, client, miner,
                   net, mempool, mining_task, peer, merkle>>

\* mark_peer_failed, up to MaxFailures failures in a row
MarkPeerFailed ==
    /\ \E addr \in DOMAIN discovery :
          /\ discovery[addr].failures < MaxFailures
          /\ discovery' = mark_peer_failed(discovery, addr, Now)
    /\ UNCHANGED <<node, storage, chain, pending_transactions, account_state,
                   pending_nonces, orphaned_blocks, clock, pending_writer, client, miner,
                   net, mempool, mining_task, peer, merkle>>

NextDiscovery ==
    Tick \/ AddPeer \/ ProcessAddrMessage \/ Bootstrap \/ UpdatePeerSeen \/ MarkPeerFailed

SpecDiscovery == Init /\ [][NextDiscovery]_vars

\* the step is mark_peer_failed(addr) on a known peer: only that call counts
\* a failure or removes a peer
MarkedFailed(addr) ==
    /\ addr \in DOMAIN discovery
    /\ \/ addr \notin DOMAIN discovery'
       \/ discovery'[addr].failures = discovery[addr].failures + 1

\* the ban that is due after the failure is counted
BanDue(addr) ==
    LET failures == discovery[addr].failures + 1
        reputation == discovery[addr].reputation - 5
    IN  /\ (failures > 3 /\ reputation < -20) \/ failures > 10
        /\ \A i \in 1..Len(seed_nodes) : seed_nodes[i] # addr

\* C40: mark_peer_failed sets banned_until to now + 3600 * (failures / 3)
\* exactly when the ban is due, and never for an address of the seed list.
C40_BanExactlyWhenDueNeverSeeds ==
    [][\A addr \in {SeedAddr, PublicAddr} :
          (MarkedFailed(addr) /\ addr \in DOMAIN discovery') =>
              discovery'[addr].banned_until =
                  IF BanDue(addr)
                  THEN <<Now + 3600 * ((discovery[addr].failures + 1) \div 3)>>
                  ELSE discovery[addr].banned_until]_vars

====
